---- MODULE Spec2Model ----
(***************************************************************************)
(* EventHub: the durable job queue (jobs table), the worker runtime that   *)
(* claims and executes jobs, the delivery ledger (notification_deliveries) *)
(* and the transactional registration + enqueue path.                      *)
(*                                                                         *)
(* Timestamps are whole seconds; durations (time.Duration) are counted in   *)
(* milliseconds.                                                           *)
(***************************************************************************)
EXTENDS Integers, Sequences, FiniteSets, TLC

\* ---------------------------------------------------------------- bounds
MaxTime == 4
MaxJobs == 2
EventCapacity == 1
MaxBackoffAttempt == 34

\* ------------------------------------------------------- program constants
MsPerSecond == 1000
DefaultMaxAttempts == 25
DefaultLockSeconds == 30
BackoffBaseSeconds == 2
BackoffCapSeconds == 300
RegistrationMaxAttempts == 10
RetryManyDefault == 50
RetryManyCap == 500
DefaultFailureThreshold == 3
DefaultCooldownSeconds == 15
DefaultHalfOpenMaxCalls == 1
RunAtDriftSeconds == 30

Workers == {"w1", "w2"}
JobIds == 1..MaxJobs
RegIds == {"r1", "r2"}
Emails == {"a@x", "b@x"}
Txs == {"t1", "t2"}
Callers == {"c1", "c2", "c3"}
Enqueuers == {"e1", "e2", "e3"}
Keys == {"k1", "k2"}
NoTx == "none"
NoEmail == "none"
NoUser == "none"
NoTime == -1
NoWorker == "none"
NoReg == "none"
NoKey == "none"
NoErr == "none"
NoJobId == 0
NoCount == -1
\* the counts of the reclaimer are not recorded in this run
Unobserved == -2
\* the count the run records
Observed(last, count) == IF last = Unobserved THEN Unobserved ELSE count

TypePublish == "event.publish"
TypeRegistrationConfirmation == "registration.confirmation"

VARIABLES
  now,          \* the clock (NOW(), time.Now()), in seconds
  lockTTL,      \* worker.Config.LockTTL, in milliseconds
  jobs,         \* the jobs table: id -> row
  claimSel,     \* per worker: the row its in-flight ClaimNext statement has locked
  claimed,      \* per worker: the job ClaimNext returned, waiting on jobsCh
  exec,         \* per worker: its executor (runWorker) and the job it runs
  ledger,       \* notification_deliveries: registration id -> record
  notified,     \* per registration: successful sends and sending -> sent transitions
  admin,        \* the admin Retry request between its two statements
  lastRequeue,  \* the count RequeueStaleProcessing returned at this clock reading, if it ran
  regs,         \* the registrations table (committed rows): id -> email
  eventLock,    \* the transaction holding the FOR UPDATE lock on the event row
  tx,           \* per Register request: its transaction and its position
  regCommitted, \* the registration ids whose inserting transaction committed
  notifier,     \* the ProtectedNotifier: its configuration and breaker fields
  calls,        \* per caller of the ProtectedNotifier: its position and result
  backoff,      \* one evaluation of ExponentialBackoff: its inputs and its result
  enq,          \* per caller of Create / CreateTx with an idempotency key: its position
  lastClaim,    \* per worker: whether its ClaimNext found no job at this clock reading
  tally,        \* what the run has done so far: handler executions and notifier calls, when counted
  run,          \* the shutdown of each worker process: context, readiness, position of Run
  refresh,      \* the refresh_tokens table, its row lock and the Refresh requests under way
  events        \* the events handler with its list cache: table version, cache entry, requests under way

regVars == <<regs, eventLock, tx, regCommitted>>

notifierVars == <<notifier, calls>>

vars == <<now, lockTTL, jobs, claimSel, claimed, exec, ledger, notified, admin, lastRequeue,
          regs, eventLock, tx, regCommitted, notifier, calls, backoff, enq, lastClaim, tally, run, refresh, events>>

\* ------------------------------------------------------------ job.New
\* job.New: a pending row with no lock, zero attempts, max_attempts defaulted
\* to 25 and run_at defaulted to the time of creation.
New(req, t) ==
  [ type         |-> req.type,
    reg          |-> req.reg,
    status       |-> "pending",
    attempts     |-> 0,
    max_attempts |-> IF req.max_attempts <= 0 THEN DefaultMaxAttempts ELSE req.max_attempts,
    run_at       |-> IF req.run_at = NoTime THEN t ELSE req.run_at,
    locked_at    |-> NoTime,
    locked_by    |-> NoWorker,
    last_error   |-> NoErr,
    key          |-> req.key,
    priority     |-> 0,
    user_id      |-> req.user_id,
    email        |-> req.email,
    created_at   |-> t ]

\* uuid.NewString for a job row: an id not yet in the table.
NewJobId(tbl) == CHOOSE id \in JobIds \ DOMAIN tbl : \A o \in JobIds \ DOMAIN tbl : id <= o

\* the mutant without the unique index
KeyNeverTaken(tbl, key) == FALSE

\* the unique index jobs_idempotency_key_uniq (WHERE idempotency_key IS NOT NULL)
KeyTaken(tbl, key) == key # NoKey /\ \E id \in DOMAIN tbl : tbl[id].key = key

\* -------------------------------------------------- statements on one row
MarkDoneRow(row, t) ==
  [row EXCEPT !.status = "done", !.locked_at = NoTime, !.locked_by = NoWorker,
              !.last_error = NoErr]

MarkFailedRow(row, errMsg, t) ==
  [row EXCEPT !.status = "failed", !.locked_at = NoTime, !.locked_by = NoWorker,
              !.last_error = errMsg]

\* the mutant that leaves attempts as they were
RescheduleRowKeepsAttempts(row, runAt, errMsg, t) ==
  [row EXCEPT !.status = "pending", !.run_at = runAt,
              !.locked_at = NoTime, !.locked_by = NoWorker,
              !.last_error = errMsg]

RescheduleRow(row, runAt, errMsg, t) ==
  [row EXCEPT !.status = "pending", !.attempts = @ + 1, !.run_at = runAt,
              !.locked_at = NoTime, !.locked_by = NoWorker,
              !.last_error = errMsg]

ClaimRow(row, workerID, t) ==
  [row EXCEPT !.status = "processing", !.locked_at = t, !.locked_by = workerID]

\* a requeue that leaves the lock owner on the row
RequeueRowKeepOwner(row, t) ==
  [row EXCEPT !.status = "pending", !.locked_at = NoTime]

\* a requeue that counts as an attempt
RequeueRowCountsAttempt(row, t) ==
  [row EXCEPT !.status = "pending", !.attempts = @ + 1, !.locked_at = NoTime, !.locked_by = NoWorker]

RequeueRow(row, t) ==
  [row EXCEPT !.status = "pending", !.locked_at = NoTime, !.locked_by = NoWorker]

RetryRow(row, t) ==
  [row EXCEPT !.status = "pending", !.run_at = t, !.locked_at = NoTime,
              !.locked_by = NoWorker, !.last_error = NoErr]

\* ------------------------------------------------------------- ClaimNext
\* WHERE status = 'pending' AND run_at <= NOW() AND attempts < max_attempts
Eligible(row, t) ==
  row.status = "pending" /\ row.run_at <= t /\ row.attempts < row.max_attempts

\* the mutant that orders by created_at alone
BeforeByCreation(a, b) == a.created_at < b.created_at

\* ORDER BY priority DESC, run_at ASC, created_at ASC
Before(a, b) ==
  \/ a.priority > b.priority
  \/ a.priority = b.priority /\ a.run_at < b.run_at
  \/ a.priority = b.priority /\ a.run_at = b.run_at /\ a.created_at < b.created_at

\* a plain sub-select, passing over no row
NoSkip(locked) == {}

\* FOR UPDATE SKIP LOCKED: the rows another statement holds a row lock on
\* are passed over.
SkipLocked(locked) == locked

\* the ids the sub-select "next" may return (LIMIT 1 takes one of them)
NextCandidates(tbl, t, locked) ==
  LET open == { id \in DOMAIN tbl \ SkipLocked(locked) : Eligible(tbl[id], t) }
  IN  { id \in open : \A o \in open : ~ Before(tbl[o], tbl[id]) }

\* the row as the worker holds it after the claim (RETURNING ...)
Snap(id, row) ==
  [ id |-> id, type |-> row.type, reg |-> row.reg,
    attempts |-> row.attempts, max_attempts |-> row.max_attempts, email |-> row.email ]

NoSnap ==
  [ id |-> NoJobId, type |-> "none", reg |-> NoReg, attempts |-> 0, max_attempts |-> 0,
    email |-> NoEmail ]
Idle == [ pc |-> "idle", job |-> NoSnap, err |-> NoErr, gate |-> "none" ]

\* rows on which an in-flight ClaimNext statement holds its row lock
RowLocked == { claimSel[w] : w \in Workers } \ {NoJobId}

\* ---------------------------------------------------- RequeueStaleProcessing
\* secs := int64(lockTTL.Seconds()); if secs <= 0 { secs = 30 }
LockSeconds(ttl) ==
  LET secs == ttl \div MsPerSecond
  IN  IF secs <= 0 THEN DefaultLockSeconds ELSE secs

\* WHERE status = 'processing' AND locked_at IS NOT NULL
\*   AND locked_at < NOW() - ($1 * INTERVAL '1 second')
StaleRow(row, t, ttl) ==
  /\ row.status = "processing"
  /\ row.locked_at # NoTime
  /\ row.locked_at < t - LockSeconds(ttl)

RequeueStaleTable(tbl, t, ttl) ==
  [ id \in DOMAIN tbl |-> IF StaleRow(tbl[id], t, ttl) THEN RequeueRow(tbl[id], t) ELSE tbl[id] ]

RequeueStaleCount(tbl, t, ttl) ==
  Cardinality({ id \in DOMAIN tbl : StaleRow(tbl[id], t, ttl) })

\* ------------------------------------------------------ ExponentialBackoff
\* the exponent of the largest power of two that is at most x
RECURSIVE Log2(_)
Log2(x) == IF x < 2 THEN 0 ELSE 1 + Log2(x \div 2)

\* time.Duration is an int64 count of nanoseconds
Int64Bits == 63

\* float64(base): 2 * time.Second in nanoseconds
BaseNs == BackoffBaseSeconds * 1000000000

\* float64(base) * math.Pow(2, attempt) >= 2^63, i.e. 2^(63 - attempt) <= base:
\* the product (an exact float64, or +Inf) is outside the range of int64
OutOfRange(attempt) == Int64Bits - attempt <= Log2(BaseNs)

\* time.Duration(f) of a float64 outside int64: the Go specification leaves the
\* value to the implementation. amd64 (CVTTSD2SQ) yields math.MinInt64, arm64
\* (FCVTZS) saturates at math.MaxInt64.
ConversionOutcomes == {"min_int64", "max_int64"}

\* math.MinInt64 and math.MaxInt64 nanoseconds, in milliseconds, clipped to the
\* checker's integers (the true values are -+9223372036854 ms)
MinDurationMs == -2000000000
MaxDurationMs == 2000000000

\* base * 2^n in milliseconds while the product is in range; doubling stops
\* once the delay is over the cap, where the code's comparison cuts it anyway
RECURSIVE Scale(_, _)
Scale(delay, n) ==
  IF n <= 0 \/ delay > BackoffCapSeconds * MsPerSecond THEN delay ELSE Scale(2 * delay, n - 1)

\* the outcomes the conversion has for this attempt count: one when the
\* product is in range
ConversionsOf(attempt) ==
  IF OutOfRange(attempt) THEN ConversionOutcomes ELSE {"max_int64"}

\* delay := time.Duration(float64(base) * multiple), in milliseconds
Convert(attempt, conv) ==
  IF OutOfRange(attempt)
  THEN IF conv = "min_int64" THEN MinDurationMs ELSE MaxDurationMs
  ELSE Scale(BackoffBaseSeconds * MsPerSecond, attempt)

\* delay in milliseconds: min(base * 2^attempt, cap) + jitter
ExponentialBackoff(attempt, jitterMs, conv) ==
  LET delay == Convert(attempt, conv)
      capped == IF delay > BackoffCapSeconds * MsPerSecond THEN BackoffCapSeconds * MsPerSecond ELSE delay
  IN  capped + jitterMs

\* time.Now().UTC().Add(delay), as the whole second it falls in
AddDuration(t, ms) == t + ms \div MsPerSecond

\* ------------------------------------------------------- delivery ledger
NoDelivery == [ status |-> "absent", job_id |-> NoJobId, sent_at |-> NoTime, last_error |-> NoErr ]

\* a flip of any record that is not sent
MatchesNotSent(rec) == rec.status \in {"failed", "sending"}

\* a flip of any record that is not in flight
MatchesNotSending(rec) == rec.status \in {"failed", "sent"}

\* step 2 of TryStartRegistration: ... WHERE kind = $1 AND registration_id = $2 AND status = 'failed'
TryStartUpdateMatches(rec) == rec.status = "failed"

\* a classification that only knows sent records
ClassifySentOnly(rec) ==
  IF rec.sent_at # NoTime \/ rec.status = "sent" THEN "already_sent" ELSE "nil"

\* step 3 of TryStartRegistration: the error returned for the row read
TryStartClassify(rec) ==
  IF rec.status = "absent" THEN "nil"
  ELSE IF rec.sent_at # NoTime \/ rec.status = "sent" THEN "already_sent"
  ELSE "in_progress"

MarkSentRecord(rec, t) ==
  IF rec.status = "absent" THEN rec
  ELSE [rec EXCEPT !.status = "sent", !.sent_at = t, !.last_error = NoErr]

\* the mutant that records the error and leaves the status
MarkFailedRecordKeepsStatus(rec, errMsg) ==
  IF rec.status = "absent" THEN rec
  ELSE [rec EXCEPT !.last_error = errMsg]

MarkFailedRecord(rec, errMsg) ==
  IF rec.status = "absent" THEN rec
  ELSE [rec EXCEPT !.status = "failed", !.last_error = errMsg]

\* the history counters stop counting at MaxCount
MaxCount == 3
Bump(n) == IF n < MaxCount THEN n + 1 ELSE n

\* cfg.ShutdownGrace in seconds, 10 when the configuration gives none
DefaultShutdownGrace == 10

\* worker.New and the start of Run: the context is live, ready is true, the
\* producer polls, the job store is reachable from the process
NewRun(grace) ==
  [ ctx |-> "live", ready |-> TRUE, pc |-> "polling",
    grace |-> IF grace <= 0 THEN DefaultShutdownGrace ELSE grace, closedAt |-> NoTime,
    db |-> "up" ]

\* the tally of a run in which nothing is counted, and of one that starts counting
NoTally == [ on |-> FALSE, executed |-> 0, invoked |-> 0 ]
ZeroTally == [ on |-> TRUE, executed |-> 0, invoked |-> 0 ]

\* runWorker took a job off the channel and calls execute
CountExecuted(t) == IF t.on THEN [t EXCEPT !.executed = Bump(@)] ELSE t

\* execute called notifier.SendRegistrationConfirmation
CountInvoked(t) == IF t.on THEN [t EXCEPT !.invoked = Bump(@)] ELSE t

\* the outcomes of a call: TRUE it took effect, FALSE it returned an error and
\* changed nothing
Ok == {TRUE}
OkOrError == {TRUE, FALSE}

\* ================================================================ actions
\* A statement in flight ends within the clock second it began in; a handler
\* (execute, the notifier's send) and the producer blocked on the channel may
\* take any time. The order of the statements of different tasks is not
\* restricted by this.
InStatement(w) ==
  \/ claimSel[w] # NoJobId
  \/ exec[w].pc \notin {"idle", "execute", "send"}

Tick ==
  /\ now < MaxTime
  /\ admin = NoJobId
  /\ \A w \in Workers : ~ InStatement(w)
  /\ now' = now + 1
  /\ lastRequeue' = Observed(lastRequeue, NoCount)
  /\ UNCHANGED regVars
  /\ UNCHANGED notifierVars
  /\ UNCHANGED <<lockTTL, jobs, claimSel, claimed, exec, ledger, notified, admin>>
  /\ UNCHANGED backoff
  /\ UNCHANGED enq
  /\ UNCHANGED tally
  /\ UNCHANGED run
  /\ UNCHANGED refresh
  /\ UNCHANGED events
  /\ lastClaim' = [w \in Workers |-> FALSE]

\* JobsRepo.Create: INSERT of job.New(req); a taken idempotency key is a
\* unique violation and inserts nothing. At most cap rows are created.
Create(req, cap) ==
  /\ Cardinality(DOMAIN jobs) < cap
  /\ ~ KeyTaken(jobs, req.key)
  /\ jobs' = jobs @@ (NewJobId(jobs) :> New(req, now))
  /\ UNCHANGED regVars
  /\ UNCHANGED notifierVars
  /\ UNCHANGED <<now, lockTTL, claimSel, claimed, exec, ledger, notified, admin, lastRequeue>>
  /\ UNCHANGED backoff
  /\ UNCHANGED enq
  /\ UNCHANGED lastClaim
  /\ UNCHANGED tally
  /\ UNCHANGED run
  /\ UNCHANGED refresh
  /\ UNCHANGED events

\* ClaimNext, first half: the sub-select picks one id and locks the row.
\* The producer issues it when it is not blocked on the channel send.
ClaimSelect(w) ==
  /\ claimSel[w] = NoJobId
  /\ claimed[w] = NoSnap
  /\ \E id \in NextCandidates(jobs, now, RowLocked) :
       claimSel' = [claimSel EXCEPT ![w] = id]
  /\ UNCHANGED regVars
  /\ UNCHANGED notifierVars
  /\ UNCHANGED <<now, lockTTL, jobs, claimed, exec, ledger, notified, admin, lastRequeue>>
  /\ UNCHANGED backoff
  /\ UNCHANGED enq
  /\ UNCHANGED lastClaim
  /\ UNCHANGED tally
  /\ UNCHANGED run
  /\ UNCHANGED refresh
  /\ UNCHANGED events

\* ClaimNext when the sub-select finds no row: the UPDATE matches nothing,
\* QueryRow reports pgx.ErrNoRows and the call returns ErrJobNotFound
ClaimNone(w) ==
  /\ claimSel[w] = NoJobId
  /\ claimed[w] = NoSnap
  /\ ~ lastClaim[w]
  /\ NextCandidates(jobs, now, RowLocked) = {}
  /\ lastClaim' = [lastClaim EXCEPT ![w] = TRUE]
  /\ UNCHANGED regVars
  /\ UNCHANGED notifierVars
  /\ UNCHANGED <<now, lockTTL, jobs, claimSel, claimed, exec, ledger, notified, admin, lastRequeue>>
  /\ UNCHANGED backoff
  /\ UNCHANGED enq
  /\ UNCHANGED tally
  /\ UNCHANGED run
  /\ UNCHANGED refresh
  /\ UNCHANGED events

\* ClaimNext, second half: UPDATE ... WHERE id = (SELECT id FROM next)
\* RETURNING the row; the row lock is released at statement end.
ClaimUpdate(w) ==
  /\ claimSel[w] # NoJobId
  /\ LET id == claimSel[w]
         row == ClaimRow(jobs[id], w, now)
     IN  /\ jobs' = [jobs EXCEPT ![id] = row]
         /\ claimed' = [claimed EXCEPT ![w] = Snap(id, row)]
  /\ claimSel' = [claimSel EXCEPT ![w] = NoJobId]
  /\ UNCHANGED regVars
  /\ UNCHANGED notifierVars
  /\ UNCHANGED <<now, lockTTL, exec, ledger, notified, admin, lastRequeue>>
  /\ UNCHANGED backoff
  /\ UNCHANGED enq
  /\ UNCHANGED lastClaim
  /\ UNCHANGED tally
  /\ UNCHANGED run
  /\ UNCHANGED refresh
  /\ UNCHANGED events

\* jobsCh <- j : the unbuffered channel hands the job to a free executor
HandOver(w) ==
  /\ claimed[w] # NoSnap
  /\ exec[w].pc = "idle"
  /\ exec' = [exec EXCEPT ![w] = [ pc |-> "execute", job |-> claimed[w], err |-> NoErr, gate |-> "none" ]]
  /\ claimed' = [claimed EXCEPT ![w] = NoSnap]
  /\ tally' = CountExecuted(tally)
  /\ UNCHANGED regVars
  /\ UNCHANGED notifierVars
  /\ UNCHANGED <<now, lockTTL, jobs, claimSel, ledger, notified, admin, lastRequeue>>
  /\ UNCHANGED backoff
  /\ UNCHANGED enq
  /\ UNCHANGED lastClaim
  /\ UNCHANGED run
  /\ UNCHANGED refresh
  /\ UNCHANGED events

\* requeueLoop: RequeueStaleProcessing(cfg.LockTTL) on every tick of its timer.
\* A call that finds nothing stale right after one that found nothing at the
\* same clock reading changes no state and is not a step.
RequeueLoop(w) ==
  /\ \A id \in DOMAIN jobs : StaleRow(jobs[id], now, lockTTL) => id \notin RowLocked
  /\ ~ (lastRequeue = 0 /\ RequeueStaleCount(jobs, now, lockTTL) = 0)
  /\ jobs' = RequeueStaleTable(jobs, now, lockTTL)
  /\ lastRequeue' = Observed(lastRequeue, RequeueStaleCount(jobs, now, lockTTL))
  /\ UNCHANGED regVars
  /\ UNCHANGED notifierVars
  /\ UNCHANGED <<now, lockTTL, claimSel, claimed, exec, ledger, notified, admin>>
  /\ UNCHANGED backoff
  /\ UNCHANGED enq
  /\ UNCHANGED lastClaim
  /\ UNCHANGED tally
  /\ UNCHANGED run
  /\ UNCHANGED refresh
  /\ UNCHANGED events

\* --------------------------------------------------------------- execute
\* execute, case "event.publish": MarkPublished succeeds (changed or not) or
\* returns an error.
ExecutePublish(w) ==
  /\ exec[w].pc = "execute"
  /\ exec[w].job.type = TypePublish
  /\ \E ok \in BOOLEAN :
       exec' = [exec EXCEPT ![w].pc = IF ok THEN "markDone" ELSE "fail",
                            ![w].err = IF ok THEN NoErr ELSE "handler_error"]
  /\ UNCHANGED regVars
  /\ UNCHANGED notifierVars
  /\ UNCHANGED <<now, lockTTL, jobs, claimSel, claimed, ledger, notified, admin, lastRequeue>>
  /\ UNCHANGED backoff
  /\ UNCHANGED enq
  /\ UNCHANGED lastClaim
  /\ UNCHANGED tally
  /\ UNCHANGED run
  /\ UNCHANGED refresh
  /\ UNCHANGED events

\* execute, json.Unmarshal(j.Payload, &p) fails: "invalid payload", for either
\* job type, before anything else is done
DecodeError(w) ==
  /\ exec[w].pc = "execute"
  /\ exec[w].job.type \in {TypePublish, TypeRegistrationConfirmation}
  /\ exec' = [exec EXCEPT ![w].pc = "fail", ![w].err = "invalid_payload"]
  /\ UNCHANGED regVars
  /\ UNCHANGED notifierVars
  /\ UNCHANGED <<now, lockTTL, jobs, claimSel, claimed, ledger, notified, admin, lastRequeue>>
  /\ UNCHANGED backoff
  /\ UNCHANGED enq
  /\ UNCHANGED lastClaim
  /\ UNCHANGED tally
  /\ UNCHANGED run
  /\ UNCHANGED refresh
  /\ UNCHANGED events

\* execute, default branch: a job type no handler exists for
ExecuteUnknown(w) ==
  /\ exec[w].pc = "execute"
  /\ exec[w].job.type \notin {TypePublish, TypeRegistrationConfirmation}
  /\ exec' = [exec EXCEPT ![w].pc = "fail", ![w].err = "unknown_job_type"]
  /\ UNCHANGED regVars
  /\ UNCHANGED notifierVars
  /\ UNCHANGED <<now, lockTTL, jobs, claimSel, claimed, ledger, notified, admin, lastRequeue>>
  /\ UNCHANGED backoff
  /\ UNCHANGED enq
  /\ UNCHANGED lastClaim
  /\ UNCHANGED tally
  /\ UNCHANGED run
  /\ UNCHANGED refresh
  /\ UNCHANGED events

\* TryStartRegistration, statement 1: INSERT ... 'sending'; the unique index
\* on (kind, registration_id) rejects it when a record exists.
TryStartInsert(w) ==
  /\ exec[w].pc = "execute"
  /\ exec[w].job.type = TypeRegistrationConfirmation
  /\ LET r == exec[w].job.reg
     IN  IF ledger[r].status = "absent"
         THEN /\ ledger' = [ledger EXCEPT ![r] =
                   [ status |-> "sending", job_id |-> exec[w].job.id,
                     sent_at |-> NoTime, last_error |-> NoErr ]]
              /\ exec' = [exec EXCEPT ![w].pc = "send", ![w].gate = "started"]
         ELSE /\ ledger' = ledger
              /\ exec' = [exec EXCEPT ![w].pc = "gateUpdate"]
  /\ UNCHANGED regVars
  /\ UNCHANGED notifierVars
  /\ UNCHANGED <<now, lockTTL, jobs, claimSel, claimed, notified, admin, lastRequeue>>
  /\ UNCHANGED backoff
  /\ UNCHANGED enq
  /\ UNCHANGED lastClaim
  /\ UNCHANGED tally
  /\ UNCHANGED run
  /\ UNCHANGED refresh
  /\ UNCHANGED events

\* TryStartRegistration, statement 2: flip a failed record back to sending
TryStartUpdate(w) ==
  /\ exec[w].pc = "gateUpdate"
  /\ LET r == exec[w].job.reg
     IN  IF TryStartUpdateMatches(ledger[r])
         THEN /\ ledger' = [ledger EXCEPT ![r].status = "sending",
                                          ![r].job_id = exec[w].job.id,
                                          ![r].last_error = NoErr]
              /\ exec' = [exec EXCEPT ![w].pc = "send", ![w].gate = "retry_claim"]
         ELSE /\ ledger' = ledger
              /\ exec' = [exec EXCEPT ![w].pc = "gateSelect"]
  /\ UNCHANGED regVars
  /\ UNCHANGED notifierVars
  /\ UNCHANGED <<now, lockTTL, jobs, claimSel, claimed, notified, admin, lastRequeue>>
  /\ UNCHANGED backoff
  /\ UNCHANGED enq
  /\ UNCHANGED lastClaim
  /\ UNCHANGED tally
  /\ UNCHANGED run
  /\ UNCHANGED refresh
  /\ UNCHANGED events

\* TryStartRegistration, statement 3, and what execute does with the result:
\* ErrAlreadySent -> return nil; ErrInProgress -> an error; nil -> send.
TryStartSelect(w) ==
  /\ exec[w].pc = "gateSelect"
  /\ LET res == TryStartClassify(ledger[exec[w].job.reg])
     IN  exec' = [exec EXCEPT
                    ![w].gate = res,
                    ![w].pc = CASE res = "already_sent" -> "markDone"
                                [] res = "in_progress" -> "fail"
                                [] OTHER -> "send",
                    ![w].err = IF res = "in_progress" THEN "send_in_progress" ELSE NoErr]
  /\ UNCHANGED regVars
  /\ UNCHANGED notifierVars
  /\ UNCHANGED <<now, lockTTL, jobs, claimSel, claimed, ledger, notified, admin, lastRequeue>>
  /\ UNCHANGED backoff
  /\ UNCHANGED enq
  /\ UNCHANGED lastClaim
  /\ UNCHANGED tally
  /\ UNCHANGED run
  /\ UNCHANGED refresh
  /\ UNCHANGED events

\* notifier.SendRegistrationConfirmation: succeeds or returns an error
Send(w, results) ==
  /\ exec[w].pc = "send"
  /\ LET r == exec[w].job.reg
     IN  \E ok \in results :
           /\ notified' = IF ok THEN [notified EXCEPT ![r].sends = Bump(@), ![r].email = exec[w].job.email]
                                ELSE notified
           /\ exec' = [exec EXCEPT ![w].pc = IF ok THEN "ledgerSent" ELSE "ledgerFailed",
                                   ![w].err = IF ok THEN NoErr ELSE "send_error"]
  /\ tally' = CountInvoked(tally)
  /\ UNCHANGED regVars
  /\ UNCHANGED notifierVars
  /\ UNCHANGED <<now, lockTTL, jobs, claimSel, claimed, ledger, admin, lastRequeue>>
  /\ UNCHANGED backoff
  /\ UNCHANGED enq
  /\ UNCHANGED lastClaim
  /\ UNCHANGED run
  /\ UNCHANGED refresh
  /\ UNCHANGED events

\* MarkRegistrationConfirmationSent; an error of the call is logged only
LedgerMarkSent(w, results) ==
  /\ exec[w].pc = "ledgerSent"
  /\ LET r == exec[w].job.reg
     IN  \E dbok \in results :
           /\ ledger' = IF dbok THEN [ledger EXCEPT ![r] = MarkSentRecord(@, now)] ELSE ledger
           /\ notified' = IF dbok /\ ledger[r].status = "sending"
                          THEN [notified EXCEPT ![r].sent = Bump(@)] ELSE notified
  /\ exec' = [exec EXCEPT ![w].pc = "markDone"]
  /\ UNCHANGED regVars
  /\ UNCHANGED notifierVars
  /\ UNCHANGED <<now, lockTTL, jobs, claimSel, claimed, admin, lastRequeue>>
  /\ UNCHANGED backoff
  /\ UNCHANGED enq
  /\ UNCHANGED lastClaim
  /\ UNCHANGED tally
  /\ UNCHANGED run
  /\ UNCHANGED refresh
  /\ UNCHANGED events

\* MarkRegistrationConfirmationFailed; its error is dropped (_ =)
LedgerMarkFailed(w, results) ==
  /\ exec[w].pc = "ledgerFailed"
  /\ LET r == exec[w].job.reg
     IN  \E dbok \in results :
           ledger' = IF dbok THEN [ledger EXCEPT ![r] = MarkFailedRecord(@, exec[w].err)] ELSE ledger
  /\ exec' = [exec EXCEPT ![w].pc = "fail"]
  /\ UNCHANGED regVars
  /\ UNCHANGED notifierVars
  /\ UNCHANGED <<now, lockTTL, jobs, claimSel, claimed, notified, admin, lastRequeue>>
  /\ UNCHANGED backoff
  /\ UNCHANGED enq
  /\ UNCHANGED lastClaim
  /\ UNCHANGED tally
  /\ UNCHANGED run
  /\ UNCHANGED refresh
  /\ UNCHANGED events

\* ---------------------------------------------------------- handleFailure
JitterInputs == {0, 249}

\* no evaluation of ExponentialBackoff under way
NoBackoff == [ attempt |-> 0, jitter |-> 0, conv |-> "max_int64", called |-> FALSE, delay |-> 0 ]

\* one call ExponentialBackoff(attempt) with the jitter rand.Intn drew
BackoffCall ==
  /\ ~ backoff.called
  /\ backoff' = [ backoff EXCEPT !.called = TRUE,
                                 !.delay = ExponentialBackoff(backoff.attempt, backoff.jitter, backoff.conv) ]
  /\ UNCHANGED regVars
  /\ UNCHANGED notifierVars
  /\ UNCHANGED <<now, lockTTL, jobs, claimSel, claimed, exec, ledger, notified, admin, lastRequeue>>
  /\ UNCHANGED enq
  /\ UNCHANGED lastClaim
  /\ UNCHANGED tally
  /\ UNCHANGED run
  /\ UNCHANGED refresh
  /\ UNCHANGED events

\* the mutant that retries once more: nextAttempt <= j.MaxAttempts
RetriesLeftOneMore(j) == j.attempts + 1 <= j.max_attempts

\* nextAttempt < j.MaxAttempts, on the attempts the worker read at claim time
RetriesLeft(j) == j.attempts + 1 < j.max_attempts

\* runAt := time.Now().UTC().Add(ExponentialBackoff(j.Attempts)), for every
\* jitter and every outcome of the conversion
RunAtChoices(j) ==
  { AddDuration(now, ExponentialBackoff(j.attempts, jit, conv)) :
      jit \in JitterInputs, conv \in ConversionsOf(j.attempts) }

HandleFailure(w, results) ==
  /\ exec[w].pc = "fail"
  /\ LET j == exec[w].job
     IN  /\ j.id \notin RowLocked
         /\ IF RetriesLeft(j)
            THEN \E dbok \in results :
                   IF dbok
                   THEN \E runAt \in RunAtChoices(j) :
                          /\ jobs' = [jobs EXCEPT ![j.id] = RescheduleRow(@, runAt, exec[w].err, now)]
                          /\ exec' = [exec EXCEPT ![w] = Idle]
                   ELSE /\ jobs' = jobs
                        /\ exec' = [exec EXCEPT ![w].pc = "rescheduleFailed"]
            ELSE \E dbok \in results :
                   /\ jobs' = IF dbok THEN [jobs EXCEPT ![j.id] = MarkFailedRow(@, exec[w].err, now)] ELSE jobs
                   /\ exec' = [exec EXCEPT ![w] = Idle]
  /\ UNCHANGED regVars
  /\ UNCHANGED notifierVars
  /\ UNCHANGED <<now, lockTTL, claimSel, claimed, ledger, notified, admin, lastRequeue>>
  /\ UNCHANGED backoff
  /\ UNCHANGED enq
  /\ UNCHANGED lastClaim
  /\ UNCHANGED tally
  /\ UNCHANGED run
  /\ UNCHANGED refresh
  /\ UNCHANGED events

\* _ = w.repo.MarkFailed(ctx, j.ID, "reschedule_failed: "+errMsg)
RescheduleFailed(w) ==
  /\ exec[w].pc = "rescheduleFailed"
  /\ exec[w].job.id \notin RowLocked
  /\ \E dbok \in BOOLEAN :
       jobs' = IF dbok THEN [jobs EXCEPT ![exec[w].job.id] = MarkFailedRow(@, "reschedule_failed", now)] ELSE jobs
  /\ exec' = [exec EXCEPT ![w] = Idle]
  /\ UNCHANGED regVars
  /\ UNCHANGED notifierVars
  /\ UNCHANGED <<now, lockTTL, claimSel, claimed, ledger, notified, admin, lastRequeue>>
  /\ UNCHANGED backoff
  /\ UNCHANGED enq
  /\ UNCHANGED lastClaim
  /\ UNCHANGED tally
  /\ UNCHANGED run
  /\ UNCHANGED refresh
  /\ UNCHANGED events

\* runWorker after execute returned nil: MarkDone
MarkDone(w, results) ==
  /\ exec[w].pc = "markDone"
  /\ exec[w].job.id \notin RowLocked
  /\ \E dbok \in results :
       IF dbok
       THEN /\ jobs' = [jobs EXCEPT ![exec[w].job.id] = MarkDoneRow(@, now)]
            /\ exec' = [exec EXCEPT ![w] = Idle]
       ELSE /\ jobs' = jobs
            /\ exec' = [exec EXCEPT ![w].pc = "markDoneFailed"]
  /\ UNCHANGED regVars
  /\ UNCHANGED notifierVars
  /\ UNCHANGED <<now, lockTTL, claimSel, claimed, ledger, notified, admin, lastRequeue>>
  /\ UNCHANGED backoff
  /\ UNCHANGED enq
  /\ UNCHANGED lastClaim
  /\ UNCHANGED tally
  /\ UNCHANGED run
  /\ UNCHANGED refresh
  /\ UNCHANGED events

\* the mutant that hands a failed MarkDone to handleFailure
MarkDoneFailedRetries(w) ==
  /\ exec[w].pc = "markDoneFailed"
  /\ exec' = [exec EXCEPT ![w].pc = "fail", ![w].err = "mark_done_failed"]
  /\ UNCHANGED regVars
  /\ UNCHANGED notifierVars
  /\ UNCHANGED <<now, lockTTL, jobs, claimSel, claimed, ledger, notified, admin, lastRequeue>>
  /\ UNCHANGED backoff
  /\ UNCHANGED enq
  /\ UNCHANGED lastClaim
  /\ UNCHANGED tally
  /\ UNCHANGED run
  /\ UNCHANGED refresh
  /\ UNCHANGED events

\* _ = w.repo.MarkFailed(execCtx, j.ID, "mark_done_failed: "+err.Error())
MarkDoneFailed(w) ==
  /\ exec[w].pc = "markDoneFailed"
  /\ exec[w].job.id \notin RowLocked
  /\ \E dbok \in BOOLEAN :
       jobs' = IF dbok THEN [jobs EXCEPT ![exec[w].job.id] = MarkFailedRow(@, "mark_done_failed", now)] ELSE jobs
  /\ exec' = [exec EXCEPT ![w] = Idle]
  /\ UNCHANGED regVars
  /\ UNCHANGED notifierVars
  /\ UNCHANGED <<now, lockTTL, claimSel, claimed, ledger, notified, admin, lastRequeue>>
  /\ UNCHANGED backoff
  /\ UNCHANGED enq
  /\ UNCHANGED lastClaim
  /\ UNCHANGED tally
  /\ UNCHANGED run
  /\ UNCHANGED refresh
  /\ UNCHANGED events

\* the worker process dies in the middle of a job and is started again: what
\* its producer and executor held is lost, the rows stay as they are
Crash(w) ==
  /\ exec[w].pc # "idle"
  /\ claimSel[w] = NoJobId
  /\ exec' = [exec EXCEPT ![w] = Idle]
  /\ claimed' = [claimed EXCEPT ![w] = NoSnap]
  /\ UNCHANGED regVars
  /\ UNCHANGED notifierVars
  /\ UNCHANGED <<now, lockTTL, jobs, claimSel, ledger, notified, admin, lastRequeue>>
  /\ UNCHANGED backoff
  /\ UNCHANGED enq
  /\ UNCHANGED lastClaim
  /\ UNCHANGED tally
  /\ UNCHANGED run
  /\ UNCHANGED refresh
  /\ UNCHANGED events

\* a handler panics inside execute: runWorker has no recover, so the panic
\* ends the worker process as a crash does, with nothing written to the row
Panic(w) == exec[w].pc \in {"execute", "send"} /\ Crash(w)

\* ------------------------------------------------------------- shutdown
\* the termination signal: signal.NotifyContext cancels the context of Run
Signal(w) ==
  /\ run[w].ctx = "live"
  /\ run' = [run EXCEPT ![w].ctx = "done"]
  /\ UNCHANGED regVars
  /\ UNCHANGED notifierVars
  /\ UNCHANGED <<now, lockTTL, jobs, claimSel, claimed, exec, ledger, notified, admin, lastRequeue>>
  /\ UNCHANGED backoff
  /\ UNCHANGED enq
  /\ UNCHANGED lastClaim
  /\ UNCHANGED tally
  /\ UNCHANGED refresh
  /\ UNCHANGED events

\* the mutant whose goroutine writes the flag on every pass
ReadyFlipAgain(w) ==
  /\ run[w].ctx = "done"
  /\ run' = [run EXCEPT ![w].ready = ~ @]
  /\ UNCHANGED regVars
  /\ UNCHANGED notifierVars
  /\ UNCHANGED <<now, lockTTL, jobs, claimSel, claimed, exec, ledger, notified, admin, lastRequeue>>
  /\ UNCHANGED backoff
  /\ UNCHANGED enq
  /\ UNCHANGED lastClaim
  /\ UNCHANGED tally
  /\ UNCHANGED refresh
  /\ UNCHANGED events

\* the goroutine waiting on ctx.Done sets ready to false
ReadyFlip(w) ==
  /\ run[w].ctx = "done"
  /\ run[w].ready
  /\ run' = [run EXCEPT ![w].ready = FALSE]
  /\ UNCHANGED regVars
  /\ UNCHANGED notifierVars
  /\ UNCHANGED <<now, lockTTL, jobs, claimSel, claimed, exec, ledger, notified, admin, lastRequeue>>
  /\ UNCHANGED backoff
  /\ UNCHANGED enq
  /\ UNCHANGED lastClaim
  /\ UNCHANGED tally
  /\ UNCHANGED refresh
  /\ UNCHANGED events

\* a ClaimNext in flight when the context is cancelled: claimCtx derives from
\* ctx, the statement is cancelled and its row lock released
ClaimCancelled(w) ==
  /\ run[w].ctx = "done"
  /\ claimSel[w] # NoJobId
  /\ claimSel' = [claimSel EXCEPT ![w] = NoJobId]
  /\ UNCHANGED regVars
  /\ UNCHANGED notifierVars
  /\ UNCHANGED <<now, lockTTL, jobs, claimed, exec, ledger, notified, admin, lastRequeue>>
  /\ UNCHANGED backoff
  /\ UNCHANGED enq
  /\ UNCHANGED lastClaim
  /\ UNCHANGED tally
  /\ UNCHANGED run
  /\ UNCHANGED refresh
  /\ UNCHANGED events

\* case <-ctx.Done(): break producerLoop, in the outer select or in the select
\* around jobsCh <- j, where the job just claimed is dropped
ProducerStop(w) ==
  /\ run[w].ctx = "done"
  /\ run[w].pc = "polling"
  /\ claimSel[w] = NoJobId
  /\ run' = [run EXCEPT ![w].pc = "closing"]
  /\ claimed' = [claimed EXCEPT ![w] = NoSnap]
  /\ UNCHANGED regVars
  /\ UNCHANGED notifierVars
  /\ UNCHANGED <<now, lockTTL, jobs, claimSel, exec, ledger, notified, admin, lastRequeue>>
  /\ UNCHANGED backoff
  /\ UNCHANGED enq
  /\ UNCHANGED lastClaim
  /\ UNCHANGED tally
  /\ UNCHANGED refresh
  /\ UNCHANGED events

\* close(jobsCh); the timer of cfg.ShutdownGrace starts
CloseJobs(w) ==
  /\ run[w].pc = "closing"
  /\ run' = [run EXCEPT ![w].pc = "waiting", ![w].closedAt = now]
  /\ UNCHANGED regVars
  /\ UNCHANGED notifierVars
  /\ UNCHANGED <<now, lockTTL, jobs, claimSel, claimed, exec, ledger, notified, admin, lastRequeue>>
  /\ UNCHANGED backoff
  /\ UNCHANGED enq
  /\ UNCHANGED lastClaim
  /\ UNCHANGED tally
  /\ UNCHANGED refresh
  /\ UNCHANGED events

\* time.After(cfg.ShutdownGrace) fired
GraceElapsed(w) == now >= run[w].closedAt + run[w].grace

\* Run returns: wg.Wait saw every executor leave its loop, or the grace timer
\* fired; the process exits and what an executor still ran is abandoned
RunReturns(w) ==
  /\ run[w].pc = "waiting"
  /\ exec[w].pc = "idle" \/ GraceElapsed(w)
  /\ run' = [run EXCEPT ![w].pc = "returned"]
  /\ exec' = [exec EXCEPT ![w] = Idle]
  /\ UNCHANGED regVars
  /\ UNCHANGED notifierVars
  /\ UNCHANGED <<now, lockTTL, jobs, claimSel, claimed, ledger, notified, admin, lastRequeue>>
  /\ UNCHANGED backoff
  /\ UNCHANGED enq
  /\ UNCHANGED lastClaim
  /\ UNCHANGED tally
  /\ UNCHANGED refresh
  /\ UNCHANGED events

\* GET /readyz of the worker's health server: the answer follows the flag
Readyz(w) ==
  IF ~ run[w].ready
  THEN [ code |-> 503, status |-> "not_ready" ]
  ELSE [ code |-> 200, status |-> "ready" ]

\* GET /healthz of the worker's health server
Healthz(w) == [ code |-> 200, ok |-> TRUE ]

\* what a call of the repository returns under the context of Run: every call
\* made with a cancelled context fails before it reaches the database
CtxResults(w) == IF run[w].ctx = "done" THEN {FALSE} ELSE {TRUE}

\* ------------------------------------------------------- store outage
\* the job store becomes unreachable from the worker process, or reachable again
Outage(w) ==
  /\ run[w].db = "up"
  /\ claimSel[w] = NoJobId
  /\ run' = [run EXCEPT ![w].db = "down"]
  /\ UNCHANGED regVars
  /\ UNCHANGED notifierVars
  /\ UNCHANGED <<now, lockTTL, jobs, claimSel, claimed, exec, ledger, notified, admin, lastRequeue>>
  /\ UNCHANGED backoff
  /\ UNCHANGED enq
  /\ UNCHANGED lastClaim
  /\ UNCHANGED tally
  /\ UNCHANGED refresh
  /\ UNCHANGED events

Restore(w) ==
  /\ run[w].db = "down"
  /\ run' = [run EXCEPT ![w].db = "up"]
  /\ UNCHANGED regVars
  /\ UNCHANGED notifierVars
  /\ UNCHANGED <<now, lockTTL, jobs, claimSel, claimed, exec, ledger, notified, admin, lastRequeue>>
  /\ UNCHANGED backoff
  /\ UNCHANGED enq
  /\ UNCHANGED lastClaim
  /\ UNCHANGED tally
  /\ UNCHANGED refresh
  /\ UNCHANGED events

\* producerLoop on a tick while the store is unreachable: ClaimNext returns an
\* error, the error is logged and the loop waits for the next tick
ClaimError(w) ==
  /\ run[w].db = "down"
  /\ run[w].pc = "polling"
  /\ claimSel[w] = NoJobId
  /\ claimed[w] = NoSnap
  /\ ~ lastClaim[w]
  /\ lastClaim' = [lastClaim EXCEPT ![w] = TRUE]
  /\ UNCHANGED regVars
  /\ UNCHANGED notifierVars
  /\ UNCHANGED <<now, lockTTL, jobs, claimSel, claimed, exec, ledger, notified, admin, lastRequeue>>
  /\ UNCHANGED backoff
  /\ UNCHANGED enq
  /\ UNCHANGED tally
  /\ UNCHANGED run
  /\ UNCHANGED refresh
  /\ UNCHANGED events

\* what a call of the repository returns while the store is reachable or not
DbResults(w) == IF run[w].db = "down" THEN {FALSE} ELSE {TRUE}

\* ------------------------------------------------------------ admin Retry
\* Retry, statement 1: SELECT status; only a failed row goes on
RetryCheck(id) ==
  /\ admin = NoJobId
  /\ id \in DOMAIN jobs
  /\ jobs[id].status = "failed"
  /\ admin' = id
  /\ UNCHANGED regVars
  /\ UNCHANGED notifierVars
  /\ UNCHANGED <<now, lockTTL, jobs, claimSel, claimed, exec, ledger, notified, lastRequeue>>
  /\ UNCHANGED backoff
  /\ UNCHANGED enq
  /\ UNCHANGED lastClaim
  /\ UNCHANGED tally
  /\ UNCHANGED run
  /\ UNCHANGED refresh
  /\ UNCHANGED events

\* Retry, statement 2: UPDATE ... WHERE id = $1
RetryRequeue ==
  /\ admin # NoJobId
  /\ admin \notin RowLocked
  /\ jobs' = [jobs EXCEPT ![admin] = RetryRow(@, now)]
  /\ admin' = NoJobId
  /\ UNCHANGED regVars
  /\ UNCHANGED notifierVars
  /\ UNCHANGED <<now, lockTTL, claimSel, claimed, exec, ledger, notified, lastRequeue>>
  /\ UNCHANGED backoff
  /\ UNCHANGED enq
  /\ UNCHANGED lastClaim
  /\ UNCHANGED tally
  /\ UNCHANGED run
  /\ UNCHANGED refresh
  /\ UNCHANGED events

\* the limit RetryManyFailed applies
RetryManyLimit(limit) ==
  IF limit <= 0 THEN RetryManyDefault
  ELSE IF limit > RetryManyCap THEN RetryManyCap ELSE limit

\* the sets of ids "picked" may hold: `limit` of the failed rows. The model
\* keeps no updated_at column, so every choice of that many failed rows stands
\* for some ORDER BY updated_at DESC.
RetryManyPicked(tbl, limit) ==
  LET failed == { id \in DOMAIN tbl : tbl[id].status = "failed" }
      n == IF Cardinality(failed) < RetryManyLimit(limit)
           THEN Cardinality(failed) ELSE RetryManyLimit(limit)
  IN  { S \in SUBSET failed :
          Cardinality(S) = n }

RetryManyFailed(limit) ==
  /\ \E S \in RetryManyPicked(jobs, limit) :
       /\ S # {}
       /\ S \cap RowLocked = {}
       /\ jobs' = [ id \in DOMAIN jobs |-> IF id \in S THEN RetryRow(jobs[id], now) ELSE jobs[id] ]
  /\ UNCHANGED regVars
  /\ UNCHANGED notifierVars
  /\ UNCHANGED <<now, lockTTL, claimSel, claimed, exec, ledger, notified, admin, lastRequeue>>
  /\ UNCHANGED backoff
  /\ UNCHANGED enq
  /\ UNCHANGED lastClaim
  /\ UNCHANGED tally
  /\ UNCHANGED run
  /\ UNCHANGED refresh
  /\ UNCHANGED events

\* ====================================================== ProtectedNotifier
\* NewProtectedNotifier: the defaults for values that are not positive, the
\* breaker closed
NewProtectedNotifier(cfg) ==
  [ threshold   |-> IF cfg.threshold <= 0 THEN DefaultFailureThreshold ELSE cfg.threshold,
    cooldown    |-> IF cfg.cooldown <= 0 THEN DefaultCooldownSeconds * MsPerSecond ELSE cfg.cooldown,
    halfOpenMax |-> IF cfg.halfOpenMax <= 0 THEN DefaultHalfOpenMaxCalls ELSE cfg.halfOpenMax,
    state |-> "closed", consecutiveFailures |-> 0, openedAt |-> NoTime, halfOpenInFlight |-> 0 ]

\* time.Since(n.openedAt) >= n.cfg.Cooldown
CooldownPassed(n, t) == (t - n.openedAt) * MsPerSecond >= n.cooldown

\* a gate that lets every call through
AllowedAlways(n, t) == TRUE

\* allowRequest: whether the call is let through
Allowed(n, t) ==
  CASE n.state = "closed" -> TRUE
    [] n.state = "open" -> CooldownPassed(n, t)
    [] n.state = "half_open" -> n.halfOpenInFlight < n.halfOpenMax
    [] OTHER -> TRUE

\* allowRequest: the notifier after the call
AllowRequestState(n, t) ==
  CASE n.state = "open" /\ CooldownPassed(n, t) ->
         [n EXCEPT !.state = "half_open", !.halfOpenInFlight = 0]
    [] n.state = "half_open" /\ n.halfOpenInFlight < n.halfOpenMax ->
         [n EXCEPT !.halfOpenInFlight = @ + 1]
    [] OTHER -> n

\* an afterRequest that keeps opened_at when a trial call fails
AfterRequestKeepsOpenedAt(n, ok, t) ==
  LET m == IF n.state = "half_open" /\ n.halfOpenInFlight > 0
           THEN [n EXCEPT !.halfOpenInFlight = @ - 1] ELSE n
      f == [m EXCEPT !.consecutiveFailures = @ + 1]
  IN  IF ok THEN [m EXCEPT !.consecutiveFailures = 0, !.state = "closed"]
      ELSE IF f.state = "half_open" THEN [f EXCEPT !.state = "open"]
      ELSE IF f.consecutiveFailures >= f.threshold THEN [f EXCEPT !.state = "open", !.openedAt = t]
      ELSE f

\* an afterRequest that opens one failure late
AfterRequestOpensLate(n, ok, t) ==
  LET m == IF n.state = "half_open" /\ n.halfOpenInFlight > 0
           THEN [n EXCEPT !.halfOpenInFlight = @ - 1] ELSE n
      f == [m EXCEPT !.consecutiveFailures = @ + 1]
  IN  IF ok THEN [m EXCEPT !.consecutiveFailures = 0, !.state = "closed"]
      ELSE IF f.state = "half_open" THEN [f EXCEPT !.state = "open", !.openedAt = t]
      ELSE IF f.consecutiveFailures > f.threshold THEN [f EXCEPT !.state = "open", !.openedAt = t]
      ELSE f

\* afterRequest(err): the notifier after the call; ok is err == nil
AfterRequestState(n, ok, t) ==
  LET m == IF n.state = "half_open" /\ n.halfOpenInFlight > 0
           THEN [n EXCEPT !.halfOpenInFlight = @ - 1] ELSE n
      f == [m EXCEPT !.consecutiveFailures = @ + 1]
  IN  IF ok THEN [m EXCEPT !.consecutiveFailures = 0, !.state = "closed"]
      ELSE IF f.state = "half_open" THEN [f EXCEPT !.state = "open", !.openedAt = t]
      ELSE IF f.consecutiveFailures >= f.threshold THEN [f EXCEPT !.state = "open", !.openedAt = t]
      ELSE f

IdleCall == [ pc |-> "idle", res |-> "none", admitted |-> "none" ]

\* SendRegistrationConfirmation up to the call of the inner notifier:
\* ErrCircuitOpen when allowRequest refuses
AllowRequest(c) ==
  /\ calls[c].pc \in {"idle", "done"}
  /\ notifier' = AllowRequestState(notifier, now)
  /\ calls' = [calls EXCEPT ![c] =
       IF Allowed(notifier, now)
       THEN [ pc |-> "inner", res |-> "none", admitted |-> notifier'.state ]
       ELSE [ pc |-> "done", res |-> "circuit_open", admitted |-> "none" ]]
  /\ UNCHANGED regVars
  /\ UNCHANGED <<now, lockTTL, jobs, claimSel, claimed, exec, ledger, notified, admin, lastRequeue>>
  /\ UNCHANGED backoff
  /\ UNCHANGED enq
  /\ UNCHANGED lastClaim
  /\ UNCHANGED tally
  /\ UNCHANGED run
  /\ UNCHANGED refresh
  /\ UNCHANGED events

\* the inner notifier returns (nil, an error or the timeout), then afterRequest
AfterRequest(c, results) ==
  /\ calls[c].pc = "inner"
  /\ \E ok \in results :
       /\ notifier' = AfterRequestState(notifier, ok, now)
       /\ calls' = [calls EXCEPT ![c].pc = "done", ![c].res = IF ok THEN "ok" ELSE "error"]
  /\ UNCHANGED regVars
  /\ UNCHANGED <<now, lockTTL, jobs, claimSel, claimed, exec, ledger, notified, admin, lastRequeue>>
  /\ UNCHANGED backoff
  /\ UNCHANGED enq
  /\ UNCHANGED lastClaim
  /\ UNCHANGED tally
  /\ UNCHANGED run
  /\ UNCHANGED refresh
  /\ UNCHANGED events

\* the mutant in which a fast-fail is no failure of the job: the row goes
\* back to pending until the cooldown is over, with its attempts unchanged
SendFailsFastDefers(w) ==
  /\ exec[w].pc = "send"
  /\ ~ Allowed(notifier, now)
  /\ notifier' = AllowRequestState(notifier, now)
  /\ jobs' = [jobs EXCEPT ![exec[w].job.id] =
               RescheduleRowKeepsAttempts(@, now + notifier.cooldown \div MsPerSecond, "circuit_open", now)]
  /\ exec' = [exec EXCEPT ![w] = Idle]
  /\ tally' = CountInvoked(tally)
  /\ UNCHANGED regVars
  /\ UNCHANGED calls
  /\ UNCHANGED <<now, lockTTL, claimSel, claimed, ledger, notified, admin, lastRequeue>>
  /\ UNCHANGED backoff
  /\ UNCHANGED enq
  /\ UNCHANGED lastClaim
  /\ UNCHANGED run
  /\ UNCHANGED refresh
  /\ UNCHANGED events

\* execute calls the ProtectedNotifier while allowRequest refuses: the call
\* returns ErrCircuitOpen without reaching the inner notifier, and execute goes
\* on as after any send error ("notifier fail-fast: ...")
SendFailsFast(w) ==
  /\ exec[w].pc = "send"
  /\ ~ Allowed(notifier, now)
  /\ notifier' = AllowRequestState(notifier, now)
  /\ exec' = [exec EXCEPT ![w].pc = "ledgerFailed", ![w].err = "circuit_open"]
  /\ tally' = CountInvoked(tally)
  /\ UNCHANGED regVars
  /\ UNCHANGED calls
  /\ UNCHANGED <<now, lockTTL, jobs, claimSel, claimed, ledger, notified, admin, lastRequeue>>
  /\ UNCHANGED backoff
  /\ UNCHANGED enq
  /\ UNCHANGED lastClaim
  /\ UNCHANGED run
  /\ UNCHANGED refresh
  /\ UNCHANGED events

\* ============================================================== Refresh
Refreshers == {"q1", "q2", "q3"}
NoRefresher == "none"
NoJTI == "none"

\* the jti of the refresh token every request presents
Presented == "j0"

\* GenerateRefreshToken: a fresh jti for each request
NewJTI(q) == IF q = "q1" THEN "j1" ELSE IF q = "q2" THEN "j2" ELSE "j3"

IdleRefresh == [ pc |-> "idle", resp |-> "none" ]

\* before any login: no token is stored, no request is under way
NoSession == [ tokens |-> << >>, lock |-> NoRefresher, req |-> << >>, wins |-> 0 ]

\* the lifetime of a refresh token, in seconds of the model's clock
RefreshLifetime == 3

\* after login: the presented token is stored, not revoked; no request is
\* under way
NewSession ==
  [ tokens |-> (Presented :> [ revoked |-> FALSE, replaced_by |-> NoJTI, expires_at |-> RefreshLifetime ]),
    lock   |-> NoRefresher,
    req    |-> [q \in Refreshers |-> IdleRefresh],
    wins   |-> 0 ]

\* the request ends: the response is written, the deferred tx.Rollback releases
\* the row lock if the request holds it
EndRefresh(s, q, resp) ==
  [ s EXCEPT !.req[q] = [ pc |-> "done", resp |-> resp ],
             !.lock = IF s.lock = q THEN NoRefresher ELSE s.lock ]

\* Refresh up to BeginTx: the cookie holds the token and its signature verifies
RefreshBegin(q) ==
  /\ refresh.req[q].pc \in {"idle", "done"}
  /\ refresh' = [refresh EXCEPT !.req[q] = [ pc |-> "select", resp |-> "none" ]]
  /\ UNCHANGED regVars
  /\ UNCHANGED notifierVars
  /\ UNCHANGED <<now, lockTTL, jobs, claimSel, claimed, exec, ledger, notified, admin, lastRequeue>>
  /\ UNCHANGED backoff
  /\ UNCHANGED enq
  /\ UNCHANGED lastClaim
  /\ UNCHANGED tally
  /\ UNCHANGED run
  /\ UNCHANGED events

\* the mutant that reads the row without FOR UPDATE
GetUnlocked(q) ==
  /\ refresh.req[q].pc = "select"
  /\ refresh' = IF refresh.tokens[Presented].revoked
                THEN EndRefresh(refresh, q, "invalid_refresh")
                ELSE IF now > refresh.tokens[Presented].expires_at
                THEN EndRefresh(refresh, q, "expired_refresh")
                ELSE [refresh EXCEPT !.req[q].pc = "revoke"]
  /\ UNCHANGED regVars
  /\ UNCHANGED notifierVars
  /\ UNCHANGED <<now, lockTTL, jobs, claimSel, claimed, exec, ledger, notified, admin, lastRequeue>>
  /\ UNCHANGED backoff
  /\ UNCHANGED enq
  /\ UNCHANGED lastClaim
  /\ UNCHANGED tally
  /\ UNCHANGED run
  /\ UNCHANGED events

\* GetForUpdate: SELECT ... WHERE id = $1 FOR UPDATE waits for the row lock and
\* returns the row as last committed; a revoked or expired row ends the
\* request with 401
GetForUpdate(q) ==
  /\ refresh.req[q].pc = "select"
  /\ refresh.lock = NoRefresher
  /\ refresh' = IF refresh.tokens[Presented].revoked
                THEN EndRefresh(refresh, q, "invalid_refresh")
                ELSE IF now > refresh.tokens[Presented].expires_at
                THEN EndRefresh(refresh, q, "expired_refresh")
                ELSE [refresh EXCEPT !.req[q].pc = "revoke", !.lock = q]
  /\ UNCHANGED regVars
  /\ UNCHANGED notifierVars
  /\ UNCHANGED <<now, lockTTL, jobs, claimSel, claimed, exec, ledger, notified, admin, lastRequeue>>
  /\ UNCHANGED backoff
  /\ UNCHANGED enq
  /\ UNCHANGED lastClaim
  /\ UNCHANGED tally
  /\ UNCHANGED run
  /\ UNCHANGED events

\* Revoke and Create on the transaction: nothing is visible before the commit;
\* an error ends the request with 500
RevokeAndCreate(q, results) ==
  /\ refresh.req[q].pc \in {"revoke", "create"}
  /\ \E dbok \in results :
       refresh' = IF dbok
                  THEN [refresh EXCEPT !.req[q].pc = IF @ = "revoke" THEN "create" ELSE "commit"]
                  ELSE EndRefresh(refresh, q, "internal")
  /\ UNCHANGED regVars
  /\ UNCHANGED notifierVars
  /\ UNCHANGED <<now, lockTTL, jobs, claimSel, claimed, exec, ledger, notified, admin, lastRequeue>>
  /\ UNCHANGED backoff
  /\ UNCHANGED enq
  /\ UNCHANGED lastClaim
  /\ UNCHANGED tally
  /\ UNCHANGED run
  /\ UNCHANGED events

\* the table after the commit of q: the old token revoked and replaced, the
\* new one stored
Rotated(tokens, q, t) ==
  [ j \in DOMAIN tokens \cup {NewJTI(q)} |->
      IF j = Presented THEN [ tokens[j] EXCEPT !.revoked = TRUE, !.replaced_by = NewJTI(q) ]
      ELSE IF j = NewJTI(q)
      THEN [ revoked |-> FALSE, replaced_by |-> NoJTI, expires_at |-> t + RefreshLifetime ]
      ELSE tokens[j] ]

\* tx.Commit, then the new cookie and the access token in the response
CommitRefresh(q, results) ==
  /\ refresh.req[q].pc = "commit"
  /\ \E dbok \in results :
       refresh' = IF dbok
                  THEN [ EndRefresh(refresh, q, "ok") EXCEPT !.tokens = Rotated(refresh.tokens, q, now),
                                                           !.wins = Bump(@) ]
                  ELSE EndRefresh(refresh, q, "internal")
  /\ UNCHANGED regVars
  /\ UNCHANGED notifierVars
  /\ UNCHANGED <<now, lockTTL, jobs, claimSel, claimed, exec, ledger, notified, admin, lastRequeue>>
  /\ UNCHANGED backoff
  /\ UNCHANGED enq
  /\ UNCHANGED lastClaim
  /\ UNCHANGED tally
  /\ UNCHANGED run
  /\ UNCHANGED events

\* ============================================================== Register
\* the idempotency key "registration:confirm:" + reg.ID
ConfirmKey(r) == r

\* the mutant that enqueues the job without the caller's user id
ConfirmReqAnonymous(r, email, uid) ==
  [ type |-> TypeRegistrationConfirmation, reg |-> r,
    max_attempts |-> RegistrationMaxAttempts, run_at |-> NoTime, key |-> ConfirmKey(r),
    user_id |-> NoUser, email |-> email ]

\* the job Register enqueues: the payload carries the registration id and its
\* email, the row the user id of the caller
ConfirmReq(r, email, uid) ==
  [ type |-> TypeRegistrationConfirmation, reg |-> r,
    max_attempts |-> RegistrationMaxAttempts, run_at |-> NoTime, key |-> ConfirmKey(r),
    user_id |-> uid, email |-> email ]

\* middlewares.UserIDFromContext: the authenticated user of each request
UserOf(t) == IF t = "t1" THEN "u1" ELSE "u2"

IdleTx ==
  [ pc |-> "idle", email |-> NoEmail, user |-> NoUser, count |-> 0, reg |-> NoReg,
    jobId |-> NoJobId, jobAt |-> NoTime, aborted |-> FALSE, dup |-> FALSE, resp |-> "none" ]

\* an INSERT on the pool: the row is in the table at once
PoolVisibleJobs(tbl, id, row) == tbl @@ (id :> row)

\* CreateTx runs its INSERT on the caller's transaction (tx.Exec): the row is
\* not in the table other sessions read until the transaction commits.
TxVisibleJobs(tbl, id, row) == tbl

\* what COMMIT makes of the jobs table
CommitJobs(tbl, t) ==
  IF t.jobId = NoJobId \/ t.jobId \in DOMAIN tbl THEN tbl ELSE tbl @@ (t.jobId :> New(ConfirmReq(t.reg, t.email, t.user), t.jobAt))

\* the request ends: deferred tx.Rollback, the event row lock is released
EndTx(t, resp) ==
  /\ tx' = [tx EXCEPT ![t].pc = "done", ![t].resp = resp]
  /\ eventLock' = IF eventLock = t THEN NoTx ELSE eventLock

\* Register: BeginTx, then CreateTx's duplicate check
\* SELECT EXISTS(... WHERE event_id = $1 AND email = $2)
RegisterBegin(t, email) ==
  /\ tx[t].pc \in {"idle", "done"}
  /\ IF \E r \in DOMAIN regs : regs[r] = email
     THEN tx' = [tx EXCEPT ![t] = [IdleTx EXCEPT !.pc = "done", !.email = email, !.resp = "already_registered"]]
     ELSE tx' = [tx EXCEPT ![t] = [IdleTx EXCEPT !.pc = "capacity", !.email = email, !.user = UserOf(t)]]
  /\ UNCHANGED <<regs, eventLock, regCommitted>>
  /\ UNCHANGED <<now, lockTTL, jobs, claimSel, claimed, exec, ledger, notified, admin, lastRequeue>>
  /\ UNCHANGED notifierVars
  /\ UNCHANGED backoff
  /\ UNCHANGED enq
  /\ UNCHANGED lastClaim
  /\ UNCHANGED tally
  /\ UNCHANGED run
  /\ UNCHANGED refresh
  /\ UNCHANGED events

\* SELECT e.capacity, (SELECT COUNT(*) ...) FROM events e WHERE e.id = $1 FOR UPDATE:
\* the count is read on the statement's snapshot, then the statement waits
\* for the row lock.
CapacityRead(t) ==
  /\ tx[t].pc = "capacity"
  /\ tx' = [tx EXCEPT ![t].pc = "lockwait", ![t].count = Cardinality(DOMAIN regs)]
  /\ UNCHANGED <<regs, eventLock, regCommitted>>
  /\ UNCHANGED <<now, lockTTL, jobs, claimSel, claimed, exec, ledger, notified, admin, lastRequeue>>
  /\ UNCHANGED notifierVars
  /\ UNCHANGED backoff
  /\ UNCHANGED enq
  /\ UNCHANGED lastClaim
  /\ UNCHANGED tally
  /\ UNCHANGED run
  /\ UNCHANGED refresh
  /\ UNCHANGED events

\* the row lock is granted; current >= capacity -> ErrEventFull
CapacityLocked(t) ==
  /\ tx[t].pc = "lockwait"
  /\ eventLock = NoTx
  /\ IF tx[t].count >= EventCapacity
     THEN /\ tx' = [tx EXCEPT ![t].pc = "done", ![t].resp = "event_full"]
          /\ eventLock' = NoTx
     ELSE /\ tx' = [tx EXCEPT ![t].pc = "insert"]
          /\ eventLock' = t
  /\ UNCHANGED <<regs, regCommitted>>
  /\ UNCHANGED <<now, lockTTL, jobs, claimSel, claimed, exec, ledger, notified, admin, lastRequeue>>
  /\ UNCHANGED notifierVars
  /\ UNCHANGED backoff
  /\ UNCHANGED enq
  /\ UNCHANGED lastClaim
  /\ UNCHANGED tally
  /\ UNCHANGED run
  /\ UNCHANGED refresh
  /\ UNCHANGED events

\* INSERT INTO registrations with id = uuid.NewString(): the primary key and
\* the unique index on (event_id, email) reject a taken id or email.
InsertRegistration(t, r) ==
  /\ tx[t].pc = "insert"
  /\ IF r \in DOMAIN regs
     THEN EndTx(t, "internal")
     ELSE IF \E o \in DOMAIN regs : regs[o] = tx[t].email
     THEN EndTx(t, "already_registered")
     ELSE /\ tx' = [tx EXCEPT ![t].pc = "enqueue", ![t].reg = r]
          /\ eventLock' = eventLock
  /\ UNCHANGED <<regs, regCommitted>>
  /\ UNCHANGED <<now, lockTTL, jobs, claimSel, claimed, exec, ledger, notified, admin, lastRequeue>>
  /\ UNCHANGED notifierVars
  /\ UNCHANGED backoff
  /\ UNCHANGED enq
  /\ UNCHANGED lastClaim
  /\ UNCHANGED tally
  /\ UNCHANGED run
  /\ UNCHANGED refresh
  /\ UNCHANGED events

\* jobsRepo.CreateTx(cctx, tx, ...): a unique violation (the key is taken)
\* aborts the transaction on the server; Register goes on to Commit.
\* Any other error ends the request with 500.
EnqueueInTx(t, results) ==
  /\ tx[t].pc = "enqueue"
  /\ DOMAIN jobs # JobIds
  /\ LET req == ConfirmReq(tx[t].reg, tx[t].email, tx[t].user)
         id == NewJobId(jobs)
     IN  IF KeyTaken(jobs, req.key)
         THEN /\ tx' = [tx EXCEPT ![t].pc = "commit", ![t].aborted = TRUE, ![t].dup = TRUE]
              /\ UNCHANGED <<jobs, eventLock>>
         ELSE \E dbok \in results :
                IF dbok
                THEN /\ tx' = [tx EXCEPT ![t].pc = "commit", ![t].jobId = id, ![t].jobAt = now]
                     /\ jobs' = TxVisibleJobs(jobs, id, New(req, now))
                     /\ eventLock' = eventLock
                ELSE /\ EndTx(t, "internal")
                     /\ jobs' = jobs
  /\ UNCHANGED <<regs, regCommitted>>
  /\ UNCHANGED <<now, lockTTL, claimSel, claimed, exec, ledger, notified, admin, lastRequeue>>
  /\ UNCHANGED notifierVars
  /\ UNCHANGED backoff
  /\ UNCHANGED enq
  /\ UNCHANGED lastClaim
  /\ UNCHANGED tally
  /\ UNCHANGED run
  /\ UNCHANGED refresh
  /\ UNCHANGED events

\* tx.Commit: COMMIT of an aborted transaction rolls it back and pgx reports
\* ErrTxCommitRollback; a failed COMMIT persists nothing either.
Commit(t, results) ==
  /\ tx[t].pc = "commit"
  /\ \E dbok \in results :
       IF dbok /\ ~ tx[t].aborted
       THEN /\ regs' = regs @@ (tx[t].reg :> tx[t].email)
            /\ jobs' = CommitJobs(jobs, tx[t])
            /\ regCommitted' = regCommitted \cup {tx[t].reg}
            /\ EndTx(t, "created")
       ELSE /\ UNCHANGED <<regs, jobs, regCommitted>>
            /\ EndTx(t, "internal")
  /\ UNCHANGED <<now, lockTTL, claimSel, claimed, exec, ledger, notified, admin, lastRequeue>>
  /\ UNCHANGED notifierVars
  /\ UNCHANGED backoff
  /\ UNCHANGED enq
  /\ UNCHANGED lastClaim
  /\ UNCHANGED tally
  /\ UNCHANGED run
  /\ UNCHANGED refresh
  /\ UNCHANGED events

\* RegistrationRepo.Delete: DELETE FROM registrations WHERE id = $1 AND event_id = $2
DeleteRegistration(r) ==
  /\ r \in DOMAIN regs
  /\ regs' = [ o \in DOMAIN regs \ {r} |-> regs[o] ]
  /\ UNCHANGED <<eventLock, tx, regCommitted>>
  /\ UNCHANGED <<now, lockTTL, jobs, claimSel, claimed, exec, ledger, notified, admin, lastRequeue>>
  /\ UNCHANGED notifierVars
  /\ UNCHANGED backoff
  /\ UNCHANGED enq
  /\ UNCHANGED lastClaim
  /\ UNCHANGED tally
  /\ UNCHANGED run
  /\ UNCHANGED refresh
  /\ UNCHANGED events

\* ======================================================== events list cache
Listers == {"l1", "l2"}
Mutators == {"u1"}

\* the mutations of the events table a run makes at most
MaxVersion == 2

\* cache.New: a ttl that is not positive becomes five seconds
DefaultCacheTTL == 5
NewCache(ttl) == IF ttl <= 0 THEN DefaultCacheTTL ELSE ttl

\* no entry under the key of the list request
NoEntry == [ ok |-> FALSE, val |-> 0, exp |-> 0 ]

\* a list request: since is the mutation that had returned when it began, at
\* the time Cache.Get read, resp the page ListCursor returned; hit and val
\* are the answer it gave
IdleList == [ pc |-> "idle", since |-> 0, at |-> 0, resp |-> 0, hit |-> FALSE, val |-> 0 ]
IdleMutate == [ pc |-> "idle", wrote |-> 0 ]

\* no events handler: nothing is listed or mutated
NoEvents == [ ttl |-> 0, db |-> 0, m |-> NoEntry, list |-> << >>, mut |-> << >>, completed |-> 0 ]

\* NewEventsHandlerWithCache(repo, cache.New(ttl)) over a table at version 0.
\* db counts the committed mutations of the events table; a list response is
\* stood for by the version it was computed from. completed is the highest
\* version whose CreateEvent / UpdateEvent / DeleteEvent request has returned.
NewEventsHandlerWithCache(ttl) ==
  [ ttl |-> NewCache(ttl), db |-> 0, m |-> NoEntry,
    list |-> [l \in Listers |-> IdleList], mut |-> [u \in Mutators |-> IdleMutate],
    completed |-> 0 ]

\* ListEvents of a first page without includeTotal, up to the first line of
\* Cache.Get: now := time.Now(), read before the lock is taken
ListEvents(l) ==
  /\ events.list[l].pc = "idle"
  /\ events' = [events EXCEPT !.list[l] =
       [ pc |-> "get", since |-> events.completed, at |-> now, resp |-> 0, hit |-> FALSE, val |-> 0 ]]
  /\ UNCHANGED regVars
  /\ UNCHANGED notifierVars
  /\ UNCHANGED <<now, lockTTL, jobs, claimSel, claimed, exec, ledger, notified, admin, lastRequeue>>
  /\ UNCHANGED backoff
  /\ UNCHANGED enq
  /\ UNCHANGED lastClaim
  /\ UNCHANGED tally
  /\ UNCHANGED run
  /\ UNCHANGED refresh

\* Cache.Get under the read lock: e, ok := c.m[key]; a miss goes on to the
\* repository, an entry with now.After(e.exp) goes on to the delete, any other
\* entry is the response
CacheGet(l) ==
  /\ events.list[l].pc = "get"
  /\ LET e == events.m
         r == events.list[l]
     IN  events' = [events EXCEPT !.list[l] =
           IF ~ e.ok THEN [r EXCEPT !.pc = "query"]
           ELSE IF r.at > e.exp THEN [r EXCEPT !.pc = "delete"]
           ELSE [IdleList EXCEPT !.hit = TRUE, !.val = e.val]]
  /\ UNCHANGED regVars
  /\ UNCHANGED notifierVars
  /\ UNCHANGED <<now, lockTTL, jobs, claimSel, claimed, exec, ledger, notified, admin, lastRequeue>>
  /\ UNCHANGED backoff
  /\ UNCHANGED enq
  /\ UNCHANGED lastClaim
  /\ UNCHANGED tally
  /\ UNCHANGED run
  /\ UNCHANGED refresh

\* Cache.Get under the write lock, taken after the read lock was released:
\* delete(c.m, key), whatever is stored under the key by now
CacheGetDelete(l) ==
  /\ events.list[l].pc = "delete"
  /\ events' = [events EXCEPT !.m = NoEntry, !.list[l].pc = "query"]
  /\ UNCHANGED regVars
  /\ UNCHANGED notifierVars
  /\ UNCHANGED <<now, lockTTL, jobs, claimSel, claimed, exec, ledger, notified, admin, lastRequeue>>
  /\ UNCHANGED backoff
  /\ UNCHANGED enq
  /\ UNCHANGED lastClaim
  /\ UNCHANGED tally
  /\ UNCHANGED run
  /\ UNCHANGED refresh

\* repo.ListCursor: the page as the table is now, or an error, answered with
\* 500 and nothing cached
ListCursor(l, results) ==
  /\ events.list[l].pc = "query"
  /\ \E ok \in results :
       events' = [events EXCEPT !.list[l] =
         IF ok THEN [@ EXCEPT !.pc = "set", !.resp = events.db]
         ELSE IdleList]
  /\ UNCHANGED regVars
  /\ UNCHANGED notifierVars
  /\ UNCHANGED <<now, lockTTL, jobs, claimSel, claimed, exec, ledger, notified, admin, lastRequeue>>
  /\ UNCHANGED backoff
  /\ UNCHANGED enq
  /\ UNCHANGED lastClaim
  /\ UNCHANGED tally
  /\ UNCHANGED run
  /\ UNCHANGED refresh

\* Cache.Set(cacheKey, resp) with exp = time.Now().Add(ttl), then the response
CacheSet(l) ==
  /\ events.list[l].pc = "set"
  /\ events' = [events EXCEPT
       !.m = [ ok |-> TRUE, val |-> events.list[l].resp, exp |-> now + events.ttl ],
       !.list[l] = [IdleList EXCEPT !.val = events.list[l].resp]]
  /\ UNCHANGED regVars
  /\ UNCHANGED notifierVars
  /\ UNCHANGED <<now, lockTTL, jobs, claimSel, claimed, exec, ledger, notified, admin, lastRequeue>>
  /\ UNCHANGED backoff
  /\ UNCHANGED enq
  /\ UNCHANGED lastClaim
  /\ UNCHANGED tally
  /\ UNCHANGED run
  /\ UNCHANGED refresh

\* CreateEvent, UpdateEvent, DeleteEvent: the repository call commits the
\* mutation. A call that returns an error is answered at once and changes
\* nothing.
MutateEvent(u) ==
  /\ events.mut[u].pc = "idle"
  /\ events.db < MaxVersion
  /\ events' = [events EXCEPT !.db = @ + 1,
                               !.mut[u] = [ pc |-> "clear", wrote |-> events.db + 1 ]]
  /\ UNCHANGED regVars
  /\ UNCHANGED notifierVars
  /\ UNCHANGED <<now, lockTTL, jobs, claimSel, claimed, exec, ledger, notified, admin, lastRequeue>>
  /\ UNCHANGED backoff
  /\ UNCHANGED enq
  /\ UNCHANGED lastClaim
  /\ UNCHANGED tally
  /\ UNCHANGED run
  /\ UNCHANGED refresh

\* cache.Clear() and the response of the mutating request
CacheClear(u) ==
  /\ events.mut[u].pc = "clear"
  /\ events' = [events EXCEPT
       !.m = NoEntry,
       !.completed = IF events.mut[u].wrote > @ THEN events.mut[u].wrote ELSE @,
       !.mut[u] = IdleMutate]
  /\ UNCHANGED regVars
  /\ UNCHANGED notifierVars
  /\ UNCHANGED <<now, lockTTL, jobs, claimSel, claimed, exec, ledger, notified, admin, lastRequeue>>
  /\ UNCHANGED backoff
  /\ UNCHANGED enq
  /\ UNCHANGED lastClaim
  /\ UNCHANGED tally
  /\ UNCHANGED run
  /\ UNCHANGED refresh

\* ================================================================== specs
\* the CreateRequest of PublishEvent, with a max_attempts of 2 so that the last
\* attempt is reached
PublishReq ==
  [ type |-> TypePublish, reg |-> NoReg, max_attempts |-> 2, run_at |-> NoTime, key |-> NoKey,
    user_id |-> NoUser, email |-> NoEmail ]

\* ===================================================== idempotency keys
\* a caller of Create or CreateTx: the key it passed, the id and the time of
\* its INSERT, and what GetByIdempotencyKey returned to it
IdleEnqueue ==
  [ pc |-> "idle", mode |-> "none", key |-> NoKey, jobId |-> NoJobId, at |-> NoTime, got |-> NoJobId ]

\* PublishEvent's request with the key "publish:event:" + eventID; a caller
\* that passes no key inserts NULL
KeyedReq(key) == [ PublishReq EXCEPT !.key = key ]

\* the unique index makes an INSERT wait while an open transaction holds an
\* uncommitted row with the same key
InsertBlocked(key) ==
  key # NoKey /\ \E e \in Enqueuers : enq[e].pc = "open" /\ enq[e].key = key

\* uuid.NewString(): an id no row has, committed or not
FreeJobIds == JobIds \ (DOMAIN jobs \cup { enq[e].jobId : e \in Enqueuers })

\* JobsRepo.Create: one INSERT on the pool, committed when it returns
CreateWithKey(e, key) ==
  /\ enq[e].pc = "idle"
  /\ ~ InsertBlocked(key)
  /\ FreeJobIds # {}
  /\ LET id == CHOOSE i \in FreeJobIds : \A o \in FreeJobIds : i <= o
         row == New(KeyedReq(key), now)
     IN  IF KeyTaken(jobs, key)
         THEN /\ enq' = [enq EXCEPT ![e] = [ IdleEnqueue EXCEPT !.pc = "duplicate", !.mode = "pool", !.key = key ]]
              /\ jobs' = jobs
         ELSE /\ enq' = [enq EXCEPT ![e] = [ pc |-> "created", mode |-> "pool", key |-> key,
                                             jobId |-> id, at |-> now, got |-> NoJobId ]]
              /\ jobs' = jobs @@ (id :> row)
  /\ UNCHANGED regVars
  /\ UNCHANGED notifierVars
  /\ UNCHANGED <<now, lockTTL, claimSel, claimed, exec, ledger, notified, admin, lastRequeue>>
  /\ UNCHANGED backoff
  /\ UNCHANGED lastClaim
  /\ UNCHANGED tally
  /\ UNCHANGED run
  /\ UNCHANGED refresh
  /\ UNCHANGED events

\* JobsRepo.CreateTx: the INSERT on the caller's transaction; the row is the
\* transaction's own until COMMIT
CreateTx(e, key) ==
  /\ enq[e].pc = "idle"
  /\ ~ InsertBlocked(key)
  /\ FreeJobIds # {}
  /\ LET id == CHOOSE i \in FreeJobIds : \A o \in FreeJobIds : i <= o
     IN  IF KeyTaken(jobs, key)
         THEN enq' = [enq EXCEPT ![e] = [ IdleEnqueue EXCEPT !.pc = "duplicate", !.mode = "tx", !.key = key ]]
         ELSE enq' = [enq EXCEPT ![e] = [ pc |-> "open", mode |-> "tx", key |-> key,
                                          jobId |-> id, at |-> now, got |-> NoJobId ]]
  /\ UNCHANGED regVars
  /\ UNCHANGED notifierVars
  /\ UNCHANGED <<now, lockTTL, jobs, claimSel, claimed, exec, ledger, notified, admin, lastRequeue>>
  /\ UNCHANGED backoff
  /\ UNCHANGED lastClaim
  /\ UNCHANGED tally
  /\ UNCHANGED run
  /\ UNCHANGED refresh
  /\ UNCHANGED events

\* tx.Commit of the caller: the row joins the table
CreateTxCommit(e) ==
  /\ enq[e].pc = "open"
  /\ jobs' = jobs @@ (enq[e].jobId :> New(KeyedReq(enq[e].key), enq[e].at))
  /\ enq' = [enq EXCEPT ![e].pc = "created"]
  /\ UNCHANGED regVars
  /\ UNCHANGED notifierVars
  /\ UNCHANGED <<now, lockTTL, claimSel, claimed, exec, ledger, notified, admin, lastRequeue>>
  /\ UNCHANGED backoff
  /\ UNCHANGED lastClaim
  /\ UNCHANGED tally
  /\ UNCHANGED run
  /\ UNCHANGED refresh
  /\ UNCHANGED events

\* tx.Rollback of the caller: the row is gone
CreateTxRollback(e) ==
  /\ enq[e].pc = "open"
  /\ enq' = [enq EXCEPT ![e] = [ IdleEnqueue EXCEPT !.pc = "rolled_back", !.mode = "tx", !.key = enq[e].key ]]
  /\ UNCHANGED regVars
  /\ UNCHANGED notifierVars
  /\ UNCHANGED <<now, lockTTL, jobs, claimSel, claimed, exec, ledger, notified, admin, lastRequeue>>
  /\ UNCHANGED backoff
  /\ UNCHANGED lastClaim
  /\ UNCHANGED tally
  /\ UNCHANGED run
  /\ UNCHANGED refresh
  /\ UNCHANGED events

\* SELECT ... FROM jobs WHERE idempotency_key = $1
RowsWithKey(tbl, key) == { id \in DOMAIN tbl : tbl[id].key = key }

\* GetByIdempotencyKey after the unique violation: QueryRow scans the first
\* row of the result, ErrJobNotFound when there is none
GetByIdempotencyKey(e) ==
  /\ enq[e].pc = "duplicate"
  /\ \/ /\ RowsWithKey(jobs, enq[e].key) = {}
        /\ enq' = [enq EXCEPT ![e].pc = "not_found"]
     \/ \E id \in RowsWithKey(jobs, enq[e].key) :
          enq' = [enq EXCEPT ![e].pc = "read", ![e].got = id]
  /\ UNCHANGED regVars
  /\ UNCHANGED notifierVars
  /\ UNCHANGED <<now, lockTTL, jobs, claimSel, claimed, exec, ledger, notified, admin, lastRequeue>>
  /\ UNCHANGED backoff
  /\ UNCHANGED lastClaim
  /\ UNCHANGED tally
  /\ UNCHANGED run
  /\ UNCHANGED refresh
  /\ UNCHANGED events

\* a registration.confirmation job for registration r1, max_attempts 2
SendReq == [ type |-> TypeRegistrationConfirmation, reg |-> "r1", max_attempts |-> 2,
             run_at |-> NoTime, key |-> NoKey, user_id |-> NoUser, email |-> "a@x" ]

InitStore ==
  /\ now = 0
  /\ jobs = << >>
  /\ claimSel = [w \in Workers |-> NoJobId]
  /\ claimed = [w \in Workers |-> NoSnap]
  /\ exec = [w \in Workers |-> Idle]
  /\ ledger = [r \in RegIds |-> NoDelivery]
  /\ notified = [r \in RegIds |-> [ sends |-> 0, sent |-> 0, email |-> NoEmail ]]
  /\ admin = NoJobId
  /\ lastRequeue = NoCount
  /\ regs = << >>
  /\ eventLock = NoTx
  /\ tx = [t \in Txs |-> IdleTx]
  /\ regCommitted = {}
  /\ calls = [c \in Callers |-> IdleCall]
  /\ enq = [e \in Enqueuers |-> IdleEnqueue]
  /\ lastClaim = [w \in Workers |-> FALSE]

\* ProtectedNotifierConfig of cmd/worker: threshold 3, cooldown 15s, one trial call
MainNotifierConfig == [ threshold |-> 3, cooldown |-> 15000, halfOpenMax |-> 1 ]

\* worker.New(Config{LockTTL: ...}): a lock TTL of one second, so that a claim
\* goes stale within the clock's range
Init ==
  /\ InitStore
  /\ lockTTL = 1000
  /\ notifier = NewProtectedNotifier(MainNotifierConfig)
  /\ backoff = NoBackoff
  /\ tally = NoTally
  /\ run = [w \in Workers |-> NewRun(0)]
  /\ refresh = NoSession
  /\ events = NoEvents

\* the job store alone: no Register, Refresh or keyed Create request exists,
\* nobody calls the notifier, no delivery is recorded, no shutdown is modelled
InitJobs ==
  /\ now = 0
  /\ lockTTL = 1000
  /\ jobs = << >>
  /\ claimSel = [w \in Workers |-> NoJobId]
  /\ claimed = [w \in Workers |-> NoSnap]
  /\ exec = [w \in Workers |-> Idle]
  /\ admin = NoJobId
  /\ lastRequeue = Unobserved
  /\ lastClaim = [w \in Workers |-> FALSE]
  /\ ledger = << >>
  /\ notified = << >>
  /\ regs = << >>
  /\ eventLock = NoTx
  /\ tx = << >>
  /\ regCommitted = {}
  /\ notifier = << >>
  /\ calls = << >>
  /\ enq = << >>
  /\ backoff = << >>
  /\ tally = NoTally
  /\ run = << >>
  /\ refresh = << >>
  /\ events = << >>

Claiming(w) == ClaimSelect(w) \/ ClaimUpdate(w) \/ HandOver(w)

\* the job store with two workers, the reclaimer and the admin operations.
\* The reclaimers of the two processes run the same statement with the same
\* TTL, so the one of w1 stands for both; with one job every limit of
\* RetryManyFailed picks the same rows, so the default stands for all.
Next ==
  \/ Tick
  \/ Create(PublishReq, 1)
  \/ \E w \in Workers :
       \/ Claiming(w)
       \/ ExecutePublish(w)
       \/ HandleFailure(w, OkOrError)
       \/ RescheduleFailed(w)
       \/ MarkDone(w, OkOrError)
       \/ MarkDoneFailed(w)
  \/ RequeueLoop("w1")
  \/ \E id \in JobIds : RetryCheck(id)
  \/ RetryRequeue
  \/ RetryManyFailed(0)

Spec == InitJobs /\ [][Next]_vars

\* Register requests against one event
NextReg ==
  \/ \E t \in Txs :
       \/ \E email \in Emails : RegisterBegin(t, email)
       \/ CapacityRead(t)
       \/ CapacityLocked(t)
       \/ \E r \in RegIds : InsertRegistration(t, r)
       \/ EnqueueInTx(t, OkOrError)
       \/ Commit(t, OkOrError)
  \/ \E r \in RegIds : DeleteRegistration(r)

SpecReg == Init /\ [][NextReg]_vars

\* two jobs and the two producers and executors, no reclaimer, no faults of
\* the database calls
NextClaim ==
  \/ Tick
  \/ Create(PublishReq, 2)
  \/ \E w \in Workers :
       \/ Claiming(w)
       \/ ExecutePublish(w)
       \/ HandleFailure(w, Ok)
       \/ MarkDone(w, Ok)

SpecClaim == Init /\ [][NextClaim]_vars

\* one worker with its reclaimer, two jobs, for each configured lock TTL
TTLInputs == {0, 500, 1000, 2000}

InitTTL ==
  /\ InitStore
  /\ lockTTL \in TTLInputs
  /\ notifier = NewProtectedNotifier(MainNotifierConfig)
  /\ backoff = NoBackoff
  /\ tally = NoTally
  /\ run = [w \in Workers |-> NewRun(0)]
  /\ refresh = NoSession
  /\ events = NoEvents

NextTTL ==
  \/ Tick
  \/ Create(PublishReq, 2)
  \/ Claiming("w1")
  \/ RequeueLoop("w1")
  \/ ExecutePublish("w1")
  \/ HandleFailure("w1", Ok)
  \/ MarkDone("w1", Ok)

SpecTTL == InitTTL /\ [][NextTTL]_vars

\* one confirmation job, two workers with their reclaimers, the admin Retry,
\* the ledger calls failing or not
NextLedger ==
  \/ Tick
  \/ Create(SendReq, 1)
  \/ \E w \in Workers :
       \/ Claiming(w)
       \/ RequeueLoop(w)
       \/ TryStartInsert(w)
       \/ TryStartUpdate(w)
       \/ TryStartSelect(w)
       \/ Send(w, OkOrError)
       \/ LedgerMarkSent(w, OkOrError)
       \/ LedgerMarkFailed(w, OkOrError)
       \/ HandleFailure(w, Ok)
       \/ MarkDone(w, Ok)
  \/ \E id \in JobIds : RetryCheck(id)
  \/ RetryRequeue

SpecLedger == Init /\ [][NextLedger]_vars

\* one confirmation job, workers that may die and restart, a notifier and a
\* database that never fail
NextCrash ==
  \/ Tick
  \/ Create(SendReq, 1)
  \/ \E w \in Workers :
       \/ Claiming(w)
       \/ RequeueLoop(w)
       \/ TryStartInsert(w)
       \/ TryStartUpdate(w)
       \/ TryStartSelect(w)
       \/ Send(w, Ok)
       \/ LedgerMarkSent(w, Ok)
       \/ HandleFailure(w, Ok)
       \/ MarkDone(w, Ok)
       \/ Crash(w)

SpecCrash == Init /\ [][NextCrash]_vars

\* the ProtectedNotifier under three concurrent callers, for configurations
\* with and without defaulted values and a cooldown within the clock's range
NotifierConfigs ==
  [ threshold : {0, 2}, cooldown : {0, 2000}, halfOpenMax : {0, 2} ]

InitNotifier ==
  /\ InitStore
  /\ lockTTL = 1000
  /\ notifier \in { NewProtectedNotifier(cfg) : cfg \in NotifierConfigs }
  /\ backoff = NoBackoff
  /\ tally = NoTally
  /\ run = [w \in Workers |-> NewRun(0)]
  /\ refresh = NoSession
  /\ events = NoEvents

NextNotifier ==
  \/ Tick
  \/ \E c \in Callers :
       \/ AllowRequest(c)
       \/ AfterRequest(c, OkOrError)

SpecNotifier == InitNotifier /\ [][NextNotifier]_vars

\* the runAt query of PublishEvent: none (run now) or a scheduled instant
RunAtInputs == {NoTime, 2}

\* t.Before(time.Now().UTC().Add(-30 * time.Second)) is rejected
RunAtAccepted(runAt) == runAt = NoTime \/ runAt >= now - RunAtDriftSeconds

ScheduledReq(runAt) == [ PublishReq EXCEPT !.run_at = runAt ]

\* two jobs, created now or scheduled, and the two producers and executors
NextOrder ==
  \/ Tick
  \/ \E runAt \in RunAtInputs : RunAtAccepted(runAt) /\ Create(ScheduledReq(runAt), 2)
  \/ \E w \in Workers :
       \/ Claiming(w)
       \/ ClaimNone(w)
       \/ ExecutePublish(w)
       \/ HandleFailure(w, Ok)
       \/ MarkDone(w, Ok)

SpecOrder == Init /\ [][NextOrder]_vars

\* the store with the executions and the notifier calls counted
InitCounted ==
  /\ InitStore
  /\ lockTTL = 1000
  /\ notifier = NewProtectedNotifier(MainNotifierConfig)
  /\ backoff = NoBackoff
  /\ tally = ZeroTally
  /\ run = [w \in Workers |-> NewRun(0)]
  /\ refresh = NoSession
  /\ events = NoEvents

\* a handler, or a notifier, that returns an error on every call
AlwaysFails == {FALSE}

\* MaxAttempts of the CreateRequest
MaxAttemptsInputs == {1, 2, 3}

WithMaxAttempts(req, m) == [ req EXCEPT !.max_attempts = m ]

\* one job, publish or confirmation, whose every execution fails; no reclaimer,
\* no admin retry, no fault of the database calls
NextRetry ==
  \/ Tick
  \/ \E m \in MaxAttemptsInputs, req \in {PublishReq, SendReq} : Create(WithMaxAttempts(req, m), 1)
  \/ \E w \in Workers :
       \/ Claiming(w)
       \/ ExecutePublish(w) /\ exec'[w].pc = "fail"
       \/ TryStartInsert(w)
       \/ TryStartUpdate(w)
       \/ Send(w, AlwaysFails)
       \/ LedgerMarkFailed(w, Ok)
       \/ HandleFailure(w, Ok)

SpecRetry == InitCounted /\ [][NextRetry]_vars

\* a notifier that returns an error on its first call and nil afterwards
FailsOnce == IF tally.invoked = 0 THEN {FALSE} ELSE {TRUE}

\* one confirmation job with max_attempts = 3 against that notifier; no
\* reclaimer, no admin retry, no fault of the database calls
NextFlaky ==
  \/ Tick
  \/ Create(WithMaxAttempts(SendReq, 3), 1)
  \/ \E w \in Workers :
       \/ Claiming(w)
       \/ TryStartInsert(w)
       \/ TryStartUpdate(w)
       \/ Send(w, FailsOnce)
       \/ LedgerMarkFailed(w, Ok)
       \/ LedgerMarkSent(w, Ok)
       \/ HandleFailure(w, Ok)
       \/ MarkDone(w, Ok)

SpecFlaky == InitCounted /\ [][NextFlaky]_vars

\* one confirmation job, two workers and the reclaimer, so that a second
\* executor meets the record of the first; the notifier and
\* MarkRegistrationConfirmationSent fail or not, the other calls succeed
NextGate ==
  \/ Tick
  \/ Create(WithMaxAttempts(SendReq, 3), 1)
  \/ \E w \in Workers :
       \/ Claiming(w)
       \/ TryStartInsert(w)
       \/ TryStartUpdate(w)
       \/ TryStartSelect(w)
       \/ Send(w, OkOrError)
       \/ LedgerMarkSent(w, OkOrError)
       \/ LedgerMarkFailed(w, Ok)
       \/ HandleFailure(w, Ok)
       \/ MarkDone(w, Ok)
  \/ RequeueLoop("w1")

SpecGate == InitCounted /\ [][NextGate]_vars

\* a job of a type execute has no case for
UnknownReq ==
  [ type |-> "test.unknown", reg |-> NoReg, max_attempts |-> 2, run_at |-> NoTime, key |-> NoKey,
    user_id |-> NoUser, email |-> NoEmail ]

\* the breaker after FailureThreshold consecutive failures at time 0: open,
\* and with the cooldown of cmd/worker open for the whole run
OpenNotifier ==
  [ NewProtectedNotifier(MainNotifierConfig) EXCEPT
      !.state = "open", !.consecutiveFailures = MainNotifierConfig.threshold, !.openedAt = 0 ]

InitKinds ==
  /\ InitStore
  /\ lockTTL = 1000
  /\ notifier = OpenNotifier
  /\ backoff = NoBackoff
  /\ tally = NoTally
  /\ run = [w \in Workers |-> NewRun(0)]
  /\ refresh = NoSession
  /\ events = NoEvents

\* one job of any type, or two confirmation jobs for the same registration,
\* each with max_attempts 2, the breaker open: every execution fails, with an
\* error of one kind or another; no reclaimer, no fault of the database
NextKinds ==
  \/ Tick
  \/ \E req \in {PublishReq, UnknownReq, SendReq} : Create(req, 1)
  \/ (\A id \in DOMAIN jobs : jobs[id].type = TypeRegistrationConfirmation) /\ Create(SendReq, 2)
  \/ \E w \in Workers :
       \/ Claiming(w)
       \/ ExecutePublish(w) /\ exec'[w].pc = "fail"
       \/ DecodeError(w)
       \/ ExecuteUnknown(w)
       \/ TryStartInsert(w)
       \/ TryStartUpdate(w)
       \/ TryStartSelect(w)
       \/ SendFailsFast(w)
       \/ LedgerMarkFailed(w, Ok)
       \/ HandleFailure(w, Ok)

SpecKinds == InitKinds /\ [][NextKinds]_vars

\* one event.publish job with max_attempts 2, two workers and the admin Retry;
\* MarkDone and the MarkFailed after it fail or not; no reclaimer and no
\* RetryManyFailed beside the Retry
NextDone ==
  \/ Tick
  \/ Create(PublishReq, 1)
  \/ \E w \in Workers :
       \/ Claiming(w)
       \/ ExecutePublish(w)
       \/ HandleFailure(w, Ok)
       \/ MarkDone(w, OkOrError)
       \/ MarkDoneFailed(w)
  \/ \E id \in JobIds : RetryCheck(id)
  \/ RetryRequeue

SpecDone == InitCounted /\ [][NextDone]_vars

\* the ttl given to cache.New, in seconds
CacheTTLInputs == {0, 1}

InitEvents ==
  /\ InitStore
  /\ lockTTL = 1000
  /\ notifier = NewProtectedNotifier(MainNotifierConfig)
  /\ backoff = NoBackoff
  /\ tally = NoTally
  /\ run = [w \in Workers |-> NewRun(0)]
  /\ refresh = NoSession
  /\ \E ttl \in CacheTTLInputs : events = NewEventsHandlerWithCache(ttl)

\* two list requests and one mutating request at a time against one handler
\* with a cache
NextEvents ==
  \/ Tick
  \/ \E l \in Listers :
       \/ ListEvents(l)
       \/ CacheGet(l)
       \/ CacheGetDelete(l)
       \/ ListCursor(l, OkOrError)
       \/ CacheSet(l)
  \/ \E u \in Mutators :
       \/ MutateEvent(u)
       \/ CacheClear(u)

SpecEvents == InitEvents /\ [][NextEvents]_vars

\* one job, publish or confirmation, whose handler may panic; no reclaimer, no
\* fault of the database calls
NextPanic ==
  \/ Tick
  \/ \E req \in {PublishReq, SendReq} : Create(req, 1)
  \/ \E w \in Workers :
       \/ Claiming(w)
       \/ ExecutePublish(w)
       \/ TryStartInsert(w)
       \/ TryStartUpdate(w)
       \/ Send(w, OkOrError)
       \/ LedgerMarkFailed(w, Ok)
       \/ LedgerMarkSent(w, Ok)
       \/ HandleFailure(w, Ok)
       \/ MarkDone(w, Ok)
       \/ Panic(w)

SpecPanic == Init /\ [][NextPanic]_vars

\* the configurations of cfg.ShutdownGrace, in seconds
ShutdownGraceInputs == {0, 1}

InitShutdown ==
  /\ InitStore
  /\ lockTTL = 30000
  /\ notifier = NewProtectedNotifier(MainNotifierConfig)
  /\ backoff = NoBackoff
  /\ tally = NoTally
  /\ \E g \in ShutdownGraceInputs : run = [w \in Workers |-> NewRun(g)]
  /\ refresh = NoSession
  /\ events = NoEvents

\* event.publish jobs and two worker processes that may receive the
\* termination signal; the executors make their calls with the context of Run
NextShutdown ==
  \/ Tick
  \/ Create(PublishReq, 1)
  \/ \E w \in Workers :
       \/ run[w].ctx = "live" /\ ClaimSelect(w)
       \/ run[w].ctx = "live" /\ ClaimUpdate(w)
       \/ ClaimCancelled(w)
       \/ run[w].pc = "polling" /\ HandOver(w)
       \/ ExecutePublish(w) /\ (run[w].ctx = "done" => exec'[w].pc = "fail")
       \/ HandleFailure(w, CtxResults(w))
       \/ RescheduleFailed(w) /\ (run[w].ctx = "done" => jobs' = jobs)
       \/ MarkDone(w, CtxResults(w))
       \/ MarkDoneFailed(w) /\ (run[w].ctx = "done" => jobs' = jobs)
       \/ Signal(w)
       \/ ReadyFlip(w)
       \/ ProducerStop(w)
       \/ CloseJobs(w)
       \/ RunReturns(w)

SpecShutdown == InitShutdown /\ [][NextShutdown]_vars

\* event.publish jobs and two worker processes that may lose the job store
NextOutage ==
  \/ Tick
  \/ Create(PublishReq, 1)
  \/ \E w \in Workers :
       \/ run[w].db = "up" /\ ClaimSelect(w)
       \/ run[w].db = "up" /\ ClaimUpdate(w)
       \/ ClaimError(w)
       \/ HandOver(w)
       \/ ExecutePublish(w) /\ (run[w].db = "down" => exec'[w].pc = "fail")
       \/ HandleFailure(w, DbResults(w))
       \/ RescheduleFailed(w) /\ (run[w].db = "down" => jobs' = jobs)
       \/ MarkDone(w, DbResults(w))
       \/ MarkDoneFailed(w) /\ (run[w].db = "down" => jobs' = jobs)
       \/ Outage(w)
       \/ Restore(w)

SpecOutage == Init /\ [][NextOutage]_vars

\* Register requests one after the other and one worker that calls
\* ProcessOne; the notifier and the database calls succeed
NextPipeline ==
  \/ Tick
  \/ \E email \in Emails : RegisterBegin("t1", email)
  \/ CapacityRead("t1")
  \/ CapacityLocked("t1")
  \/ \E r \in RegIds : InsertRegistration("t1", r)
  \/ EnqueueInTx("t1", Ok)
  \/ Commit("t1", Ok)
  \/ Claiming("w1")
  \/ ClaimNone("w1")
  \/ TryStartInsert("w1")
  \/ Send("w1", Ok)
  \/ LedgerMarkSent("w1", Ok)
  \/ MarkDone("w1", Ok)

SpecPipeline == Init /\ [][NextPipeline]_vars

\* one user has logged in and holds the refresh token
InitRefresh ==
  /\ InitStore
  /\ lockTTL = 30000
  /\ notifier = NewProtectedNotifier(MainNotifierConfig)
  /\ backoff = NoBackoff
  /\ tally = NoTally
  /\ run = [w \in Workers |-> NewRun(0)]
  /\ refresh = NewSession
  /\ events = NoEvents

\* Refresh requests presenting the same token, the database calls failing or not
NextRefresh ==
  \/ Tick
  \/ \E q \in Refreshers :
       \/ RefreshBegin(q)
       \/ GetForUpdate(q)
       \/ RevokeAndCreate(q, OkOrError)
       \/ CommitRefresh(q, OkOrError)

SpecRefresh == InitRefresh /\ [][NextRefresh]_vars

\* callers of Create and CreateTx with keys k1, k2 and without a key, in any
\* interleaving with each other's transactions
NextKey ==
  \/ Tick
  \/ \E e \in Enqueuers :
       \/ \E key \in Keys \cup {NoKey} : CreateWithKey(e, key)
       \/ \E key \in Keys \cup {NoKey} : CreateTx(e, key)
       \/ CreateTxCommit(e)
       \/ CreateTxRollback(e)
       \/ GetByIdempotencyKey(e)

SpecKey == Init /\ [][NextKey]_vars

\* ExponentialBackoff alone: every attempt count up to MaxBackoffAttempt, the
\* two ends of the jitter range, and either conversion outcome
InitBackoff ==
  /\ InitStore
  /\ lockTTL = 1000
  /\ notifier = NewProtectedNotifier(MainNotifierConfig)
  /\ backoff \in { [ NoBackoff EXCEPT !.attempt = n, !.jitter = jit, !.conv = conv ] :
                      n \in 0..MaxBackoffAttempt, jit \in JitterInputs, conv \in ConversionOutcomes }
  /\ tally = NoTally
  /\ run = [w \in Workers |-> NewRun(0)]
  /\ refresh = NoSession
  /\ events = NoEvents

NextBackoff == BackoffCall

SpecBackoff == InitBackoff /\ [][NextBackoff]_vars

\* ================================================================= claims
\* the ClaimNext call of worker w returns a row in this step
ClaimReturns(w) == claimed'[w] # claimed[w] /\ claimed'[w] # NoSnap

\* C1: a ClaimNext call that returns a row moved that row from pending to
\* processing and recorded its caller in locked_by, and no other ClaimNext
\* call in flight holds the same row: two calls never return the same row.
C1_ClaimExclusive ==
  [][ \A w \in Workers :
        ClaimReturns(w) =>
          LET id == claimed'[w].id
          IN  /\ jobs[id].status = "pending"
              /\ jobs'[id].status = "processing"
              /\ jobs'[id].locked_by = w
              /\ \A o \in Workers \ {w} : claimSel[o] # id ]_vars

\* two ClaimNext statements in flight at once, each holding its own row
C1_Witness ==
  /\ claimSel["w1"] # NoJobId
  /\ claimSel["w2"] # NoJobId
  /\ claimSel["w1"] # claimSel["w2"]

\* worker w holds job id: claimed and waiting on the channel, or in execution
Holds(w, id) == id # NoJobId /\ (claimed[w].id = id \/ exec[w].job.id = id)

\* C2: no two workers hold the same job as a claimed, in-execution job at
\* the same time.
C2_NoTwoHolders ==
  \A a \in Workers, b \in Workers, id \in DOMAIN jobs :
    Holds(a, id) /\ Holds(b, id) => a = b

\* C3: for every job, attempts <= max_attempts.
C3_AttemptsBounded ==
  \A id \in DOMAIN jobs : jobs[id].attempts <= jobs[id].max_attempts

\* C4: a job has status processing if and only if locked_at and locked_by are
\* both non-null; every pending, done or failed row has both null.
C4_LockShape ==
  \A id \in DOMAIN jobs :
    IF jobs[id].status = "processing"
    THEN jobs[id].locked_at # NoTime /\ jobs[id].locked_by # NoWorker
    ELSE jobs[id].locked_at = NoTime /\ jobs[id].locked_by = NoWorker

\* a row the admin Retry put back to pending after it had failed
C4_Witness ==
  \E id \in DOMAIN jobs :
    /\ jobs[id].status = "pending"
    /\ jobs[id].attempts > 0
    /\ jobs[id].last_error = NoErr

\* the threshold the statement is given, in seconds
RequeueThreshold ==
  IF lockTTL \div 1000 <= 0 THEN 30 ELSE lockTTL \div 1000

\* C10 (as the code has it): RequeueStaleProcessing(lock_ttl) changes exactly
\* the processing rows with locked_at older than now - T, where T is lock_ttl
\* in whole seconds, or 30 seconds when that is not positive: each becomes
\* pending with the lock cleared and every other column as it was; every other
\* row is unchanged; the count returned is the number of rows reset.
C10_RequeueFrame ==
  [][ (\E w \in Workers : RequeueLoop(w)) =>
        LET stale == { id \in DOMAIN jobs :
                         /\ jobs[id].status = "processing"
                         /\ jobs[id].locked_at < now - RequeueThreshold }
        IN  /\ DOMAIN jobs' = DOMAIN jobs
            /\ \A id \in stale :
                 jobs'[id] = [jobs[id] EXCEPT !.status = "pending", !.locked_at = NoTime,
                                              !.locked_by = NoWorker]
            /\ \A id \in DOMAIN jobs \ stale : jobs'[id] = jobs[id]
            /\ lastRequeue' = Cardinality(stale) ]_vars

\* a call has reset one row and left a processing row with a fresh lock
C10_Witness ==
  /\ lastRequeue = 1
  /\ \E a \in DOMAIN jobs, b \in DOMAIN jobs :
       /\ jobs[a].status = "pending" /\ jobs[a].created_at < now
       /\ jobs[b].status = "processing"

\* C10 as stated: the rows reset are the processing rows with locked_at older
\* than now - lock_ttl, lock_ttl taken as the duration it is.
C10_AsStated ==
  [][ (\E w \in Workers : RequeueLoop(w)) =>
        \A id \in DOMAIN jobs :
          (jobs[id].status = "processing" /\
           jobs[id].locked_at * 1000 < now * 1000 - lockTTL)
            <=> (jobs'[id] # jobs[id]) ]_vars

\* C7: for each registration the delivery record goes from sending to sent at
\* most once, and the notifier returns success at most once.
C7_SendOnce ==
  \A r \in RegIds : notified[r].sent <= 1 /\ notified[r].sends <= 1

\* the confirmation was sent and recorded by a job that had failed before
C7_Witness ==
  /\ notified["r1"].sends = 1
  /\ notified["r1"].sent = 1
  /\ \E id \in DOMAIN jobs : jobs[id].attempts > 0 /\ jobs[id].status = "done"

\* C8: a sent delivery record stays sent with sent_at set, whatever handlers
\* call next; a record becomes sending only by being inserted or from failed.
C8_SentTerminal ==
  [][ \A r \in RegIds :
        /\ ledger[r].status = "sent" =>
             ledger[r].sent_at # NoTime /\ ledger'[r].status = "sent" /\ ledger'[r].sent_at # NoTime
        /\ (ledger'[r].status = "sending" /\ ledger[r].status # "sending") =>
             ledger[r].status \in {"absent", "failed"} ]_vars

\* a handler met the sent record in TryStartRegistration and left it sent
C8_Witness ==
  /\ ledger["r1"].status = "sent"
  /\ ledger["r1"].sent_at # NoTime
  /\ \E w \in Workers : exec[w].gate = "already_sent"

\* worker w owns the send for registration r: TryStartRegistration returned
\* nil to it and it has not marked the record yet
Owns(w, r) == exec[w].job.reg = r /\ exec[w].pc \in {"send", "ledgerSent", "ledgerFailed"}

\* TryStartRegistration returns to worker w in this step
GateReturns(w) == exec'[w].gate # exec[w].gate /\ exec'[w].gate # "none"

\* C9: at most one caller at a time owns the send for a registration; a call
\* succeeds only if it inserted the sending record or flipped it itself from
\* failed to sending; a caller that finds the record sent gets AlreadySent and
\* one that finds it sending gets InProgress.
C9_OneOwner ==
  [][ /\ \A a \in Workers, b \in Workers, r \in RegIds :
           Owns(a, r)' /\ Owns(b, r)' => a = b
      /\ \A w \in Workers :
           GateReturns(w) =>
             LET r == exec[w].job.reg
                 res == exec'[w].gate
             IN  /\ res \in {"started", "retry_claim", "already_sent", "in_progress"}
                 /\ res = "started" => ledger[r].status = "absent" /\ ledger'[r].status = "sending"
                 /\ res = "retry_claim" => ledger[r].status = "failed" /\ ledger'[r].status = "sending"
                 /\ res \in {"started", "retry_claim"} => ledger'[r].job_id = exec[w].job.id
                 /\ ledger[r].status = "sent" => res = "already_sent"
                 /\ ledger[r].status = "sending" => res = "in_progress" ]_vars

\* one worker owns the send while the other was turned away with InProgress
C9_Witness ==
  \E a \in Workers, b \in Workers :
    /\ Owns(a, "r1")
    /\ exec[b].gate = "in_progress"
    /\ exec[b].pc = "fail"

\* the confirmation job row of registration r is in the jobs table
HasConfirmationJob(r) ==
  \E id \in DOMAIN jobs :
    jobs[id].type = TypeRegistrationConfirmation /\ jobs[id].key = ConfirmKey(r)

\* C5: the confirmation job row of a registration exists if and only if the
\* transaction that inserted the registration committed.
C5_JobIffCommitted ==
  \A r \in RegIds : HasConfirmationJob(r) <=> r \in regCommitted

\* one registration committed with its job, and a request that had inserted
\* another registration and enqueued its job ended without a commit
C5_Witness ==
  \E t \in Txs, r \in RegIds :
    /\ r \in regCommitted
    /\ HasConfirmationJob(r)
    /\ tx[t].pc = "done"
    /\ tx[t].resp = "internal"
    /\ tx[t].jobId # NoJobId
    /\ tx[t].reg \notin regCommitted

\* C6: a Register request whose in-transaction enqueue failed with a duplicate
\* idempotency key ends with success and its registration row persisted.
C6_DuplicateIsBenign ==
  \A t \in Txs :
    (tx[t].pc = "done" /\ tx[t].dup) =>
      /\ tx[t].resp = "created"
      /\ tx[t].reg \in DOMAIN regs
      /\ regs[tx[t].reg] = tx[t].email

\* C11: a job whose worker died during its execution is reclaimed, claimed
\* again and completed; with a notifier and a database that never fail it is
\* not left failed, held by no worker, with its confirmation not delivered.
C11_CrashedJobCompletes ==
  \A id \in DOMAIN jobs :
    (jobs[id].status = "failed" /\ ledger[jobs[id].reg].status # "sent")
      => \E w \in Workers : Holds(w, id)

\* C12: a pending job is claimed once its run_at has come: no pending job that
\* no worker holds is one ClaimNext passes over for good (attempts at or above
\* max_attempts).
C12_PendingIsClaimable ==
  \A id \in DOMAIN jobs :
    (jobs[id].status = "pending" /\ ~ \E w \in Workers : Holds(w, id))
      => jobs[id].attempts < jobs[id].max_attempts

\* caller c's call of SendRegistrationConfirmation enters in this step
CallEnters(c) == calls[c].pc \in {"idle", "done"} /\ calls'[c] # calls[c]

\* caller c's call comes back from the inner notifier with an error
CallFails(c) == calls[c].pc = "inner" /\ calls'[c].res = "error"

\* caller c's call comes back from the inner notifier without an error
CallSucceeds(c) == calls[c].pc = "inner" /\ calls'[c].res = "ok"

\* C13: once failure_threshold sends in a row have failed the breaker is open,
\* and a call made while it is open and the cooldown has not elapsed returns
\* CircuitOpen without reaching the inner notifier.
C13_OpenFailsFast ==
  [][ \A c \in Callers :
        /\ (CallFails(c) /\ notifier'.consecutiveFailures >= notifier.threshold)
             => notifier'.state = "open"
        /\ (CallEnters(c) /\ notifier.state = "open"
              /\ (now - notifier.openedAt) * 1000 < notifier.cooldown)
             => /\ calls'[c].pc = "done"
                /\ calls'[c].res = "circuit_open"
                /\ notifier' = notifier ]_vars

\* the breaker is open after the threshold was reached and a caller was refused
C13_Witness ==
  /\ notifier.state = "open"
  /\ notifier.consecutiveFailures >= notifier.threshold
  /\ \E c \in Callers : calls[c].res = "circuit_open"

\* the trial calls in flight: admitted while the breaker was half-open (the
\* call that moved it from open to half-open included), not yet returned
TrialCalls == { c \in Callers : calls[c].pc = "inner" /\ calls[c].admitted = "half_open" }

\* C14: while the breaker is half-open at most half_open_max_calls trial calls
\* are in flight to the inner notifier.
C14_HalfOpenLimit ==
  notifier.state = "half_open" => Cardinality(TrialCalls) <= notifier.halfOpenMax

\* C15: in the half-open state a trial call that fails moves the breaker to
\* open with opened_at set to the time of the failure, and a trial call that
\* succeeds moves it to closed with the consecutive-failure counter at zero.
C15_TrialOutcome ==
  [][ \A c \in Callers :
        (notifier.state = "half_open" /\ calls[c].admitted = "half_open") =>
          /\ CallFails(c) => notifier'.state = "open" /\ notifier'.openedAt = now
          /\ CallSucceeds(c) => notifier'.state = "closed" /\ notifier'.consecutiveFailures = 0 ]_vars

\* a trial call has failed after the clock moved on: the breaker is open anew
C15_Witness ==
  /\ notifier.state = "open"
  /\ notifier.openedAt = now
  /\ now > 0
  /\ \E c \in Callers : calls[c].admitted = "half_open" /\ calls[c].res = "error"

\* C16: in the closed state every call is admitted, a successful send sets the
\* consecutive-failure counter to zero, a failed send adds one to it, and the
\* breaker opens exactly when the counter reaches failure_threshold; it is
\* never open on fewer than failure_threshold failures since the last success.
C16_ClosedCounts ==
  [][ /\ notifier'.threshold > 0
      /\ notifier'.state = "open" => notifier'.consecutiveFailures >= notifier'.threshold
      /\ \A c \in Callers :
           notifier.state = "closed" =>
             /\ CallEnters(c) => calls'[c].pc = "inner" /\ notifier' = notifier
             /\ CallSucceeds(c) => notifier'.consecutiveFailures = 0 /\ notifier'.state = "closed"
             /\ CallFails(c) =>
                  /\ notifier'.consecutiveFailures = notifier.consecutiveFailures + 1
                  /\ notifier'.state = "open" <=> notifier'.consecutiveFailures >= notifier.threshold
                  /\ notifier'.state = "open" => notifier'.openedAt = now ]_vars

\* closed with one failure counted and a call admitted and in flight
C16_Witness ==
  /\ notifier.state = "closed"
  /\ notifier.consecutiveFailures = 1
  /\ \E c \in Callers : calls[c].pc = "inner" /\ calls[c].admitted = "closed"
  /\ \E c \in Callers : calls[c].res = "ok"

\* C17: the delay without its jitter lies between base and cap for every
\* attempt count, also one for which base * 2^n is beyond a 64-bit duration
C17_BackoffInRange ==
  backoff.called =>
    /\ BackoffBaseSeconds * MsPerSecond <= backoff.delay - backoff.jitter
    /\ backoff.delay - backoff.jitter <= BackoffCapSeconds * MsPerSecond

\* C18: no two rows share a non-null idempotency key; of the calls of Create
\* and CreateTx with one key at most one has its row in the table, every other
\* finished call got the duplicate-key error because of that row, and
\* GetByIdempotencyKey then returns that row
C18_KeyUnique ==
  /\ \A i, j \in DOMAIN jobs : (i # j /\ jobs[i].key = jobs[j].key) => jobs[i].key = NoKey
  /\ \A key \in Keys : Cardinality({ e \in Enqueuers : enq[e].pc = "created" /\ enq[e].key = key }) <= 1
  /\ \A e \in Enqueuers :
       enq[e].pc \in {"duplicate", "read", "not_found"} =>
         \E o \in Enqueuers \ {e} : enq[o].pc = "created" /\ enq[o].key = enq[e].key
  /\ \A e \in Enqueuers : enq[e].pc # "not_found"
  /\ \A e \in Enqueuers :
       enq[e].pc = "read" =>
         /\ enq[e].got \in DOMAIN jobs
         /\ jobs[enq[e].got].key = enq[e].key
         /\ \E o \in Enqueuers \ {e} : enq[o].pc = "created" /\ enq[o].jobId = enq[e].got

\* a Create on the pool met the key a committed transaction had inserted, and
\* a CreateTx met it too; both read the row back
C18_Witness ==
  \E e, o, u \in Enqueuers :
    /\ enq[o].pc = "created" /\ enq[o].mode = "tx" /\ enq[o].key # NoKey
    /\ enq[e].pc = "read" /\ enq[e].mode = "pool" /\ enq[e].got = enq[o].jobId
    /\ enq[u].pc = "read" /\ enq[u].mode = "tx" /\ enq[u].got = enq[o].jobId

\* the sub-select of worker w's ClaimNext picks a row in this step
ClaimPicks(w) == claimSel[w] = NoJobId /\ claimSel'[w] # NoJobId

\* C19: the row a ClaimNext picks is pending with run_at <= now and attempts <
\* max_attempts, and no other such row that a concurrent ClaimNext has not
\* already picked comes before it in (priority DESC, run_at ASC, created_at
\* ASC); the row it returns is the row it picked, still eligible; a ClaimNext
\* that finds no eligible row returns no job and changes no row
C19_ClaimsFirstEligible ==
  [][\A w \in Workers :
       LET ready(row) == row.status = "pending" /\ row.run_at <= now /\ row.attempts < row.max_attempts
           earlier(a, b) ==
             \/ a.priority > b.priority
             \/ a.priority = b.priority /\ a.run_at < b.run_at
             \/ a.priority = b.priority /\ a.run_at = b.run_at /\ a.created_at < b.created_at
           others == DOMAIN jobs \ { claimSel[o] : o \in Workers }
       IN  /\ ClaimPicks(w) =>
                /\ ready(jobs[claimSel'[w]])
                /\ \A o \in others : ready(jobs[o]) => ~ earlier(jobs[o], jobs[claimSel'[w]])
                /\ jobs' = jobs
           /\ ClaimReturns(w) =>
                /\ claimed'[w].id = claimSel[w]
                /\ ready(jobs[claimSel[w]])
           /\ (lastClaim'[w] /\ ~ lastClaim[w]) =>
                /\ \A o \in others : ~ ready(jobs[o])
                /\ jobs' = jobs
                /\ claimed' = claimed
  ]_vars

\* a ClaimNext picked the job created later of two eligible ones, because its
\* run_at is the earlier
C19_Witness ==
  \E w \in Workers :
    /\ claimSel[w] # NoJobId
    /\ \E o \in DOMAIN jobs \ {claimSel[w]} :
         /\ Eligible(jobs[o], now)
         /\ jobs[o].created_at < jobs[claimSel[w]].created_at
         /\ jobs[claimSel[w]].run_at < jobs[o].run_at

C21_RetryRule ==
  [][\A id \in DOMAIN jobs :
       LET j == jobs'[id]
       IN  /\ tally'.executed <= j.max_attempts
           /\ j.status # "done"
           /\ j.status = "pending" => (j.attempts = tally'.executed /\ j.attempts < j.max_attempts)
           /\ j.status = "failed" =>
                /\ tally'.executed = j.max_attempts
                /\ j.attempts = j.max_attempts - 1
                /\ j.last_error # NoErr
                /\ j.type = TypeRegistrationConfirmation =>
                     (ledger'[j.reg].status = "failed" /\ tally'.invoked = j.max_attempts)
           /\ (jobs[id].status = "processing" /\ j.status = "pending") =>
                /\ j.attempts = jobs[id].attempts + 1
                /\ jobs[id].attempts + 1 < j.max_attempts
                /\ j.run_at = now + Scale(BackoffBaseSeconds, jobs[id].attempts)
                /\ j.last_error # NoErr
           /\ (jobs[id].status = "processing" /\ j.status = "failed") =>
                jobs[id].attempts + 1 >= j.max_attempts
  ]_vars

\* a confirmation job with max_attempts = 2 ended failed after two executions
\* and two calls of the notifier
C21_Witness ==
  \E id \in DOMAIN jobs :
    /\ jobs[id].type = TypeRegistrationConfirmation
    /\ jobs[id].max_attempts = 2
    /\ jobs[id].status = "failed"
    /\ ledger[jobs[id].reg].status = "failed"
    /\ tally.executed = 2
    /\ tally.invoked = 2

\* C22: with a notifier that fails on the first execution and succeeds on the
\* second (max_attempts = 3) the job never ends failed, and once it is done
\* its attempts are 1 (the one failure that was rescheduled), the ledger
\* record is sent, and the handler and the notifier ran twice each
C22_FailThenSucceed ==
  \A id \in DOMAIN jobs :
    /\ jobs[id].status # "failed"
    /\ tally.invoked <= 2
    /\ jobs[id].status = "done" =>
         /\ jobs[id].attempts = 1
         /\ ledger[jobs[id].reg].status = "sent"
         /\ tally.executed = 2
         /\ tally.invoked = 2

\* the job of that run is done
C22_Witness ==
  \E id \in DOMAIN jobs :
    /\ jobs[id].status = "done"
    /\ jobs[id].max_attempts = 3
    /\ tally.invoked = 2
    /\ notified[jobs[id].reg].sends = 1

\* C22 as the scenario states it: the job ends done with attempts = 2
C22_AsStated ==
  \A id \in DOMAIN jobs :
    jobs[id].status = "done" =>
      /\ jobs[id].attempts = 2
      /\ ledger[jobs[id].reg].status = "sent"
      /\ tally.invoked = 2

\* C23: a panic of a handler is recovered by the executor and handled as a
\* failure: in the step the executor leaves the job, the row is rescheduled or
\* dead-lettered with the panic in last_error, so no row stays in processing
\* without a worker that holds it
C23_PanicHandled ==
  \A id \in DOMAIN jobs :
    jobs[id].status = "processing" => \E w \in Workers : Holds(w, id)

\* C24: the admin Retry moves a job to pending only if the job is failed at
\* the moment of the transition, also when it runs beside RetryManyFailed and
\* the workers: it never resets a row a worker holds in processing
C24_RetryOnlyFailed ==
  [][ (admin # NoJobId /\ admin' = NoJobId) => jobs[admin].status = "failed" ]_vars

\* C25: after the termination signal every job already handed to an executor
\* is run to a recorded outcome (done, rescheduled or failed) when it finishes
\* before Run returns: the step in which the executor leaves the job leaves the
\* row out of processing
C25_DrainRecordsOutcome ==
  [][ \A w \in Workers :
        ( /\ run[w].ctx = "done"
          /\ exec[w].pc # "idle"
          /\ exec'[w].pc = "idle"
          /\ run'[w].pc # "returned" )
        => jobs'[exec[w].job.id].status # "processing" ]_vars

C27_OutageSurfaced ==
  \A w \in Workers :
    (run[w].db = "down" /\ lastClaim[w]) =>
      /\ run[w].pc = "polling"
      /\ Readyz(w).code = 503

C29_CapacityRespected == Cardinality(DOMAIN regs) <= EventCapacity

\* C30: of the Refresh requests presenting one refresh token, one after the
\* other or at the same time, at most one succeeds, revoking the old token and
\* storing one replacement; every other request stores no token, and is
\* answered invalid_refresh once the token has been redeemed
C30_RedeemOnce ==
  /\ [] ( /\ refresh.wins <= 1
          /\ Cardinality(DOMAIN refresh.tokens \ {Presented}) = refresh.wins
          /\ refresh.tokens[Presented].revoked <=> refresh.wins = 1
          /\ refresh.tokens[Presented].revoked =>
               refresh.tokens[Presented].replaced_by \in DOMAIN refresh.tokens )
  /\ [][ \A q \in Refreshers :
           (refresh.req[q].pc # "done" /\ refresh'.req[q].pc = "done"
              /\ refresh'.req[q].resp # "ok") =>
             /\ refresh'.tokens = refresh.tokens
             /\ refresh.wins = 1 => refresh'.req[q].resp = "invalid_refresh" ]_vars

\* one request has redeemed the token and another one was turned away
C30_Witness ==
  \E q, o \in Refreshers :
    /\ refresh.req[q].resp = "ok"
    /\ refresh.req[o].pc = "done"
    /\ refresh.req[o].resp = "invalid_refresh"

\* C31: done is terminal for the workers: once a row is done, no statement of
\* a worker (MarkFailed, Reschedule, RequeueStaleProcessing, ClaimNext), in
\* any interleaving, changes its status, attempts or run_at. The second
\* statement of the admin Retry is the one step left out.
C31_DoneIsTerminal ==
  [][ admin = NoJobId =>
        \A id \in DOMAIN jobs :
          jobs[id].status = "done" =>
            /\ jobs'[id].status = "done"
            /\ jobs'[id].attempts = jobs[id].attempts
            /\ jobs'[id].run_at = jobs[id].run_at ]_vars

C33_RetryByAttemptsOnly ==
  [][ /\ \A w \in Workers :
           (exec[w].pc = "fail" /\ exec'[w].pc = "idle") =>
             LET j == exec[w].job
                 row == jobs'[j.id]
             IN  IF j.attempts + 1 < j.max_attempts
                 THEN /\ row.status = "pending"
                      /\ row.attempts = jobs[j.id].attempts + 1
                      /\ row.run_at = now + Scale(BackoffBaseSeconds, j.attempts)
                      /\ row.last_error = exec[w].err
                 ELSE /\ row.status = "failed"
                      /\ row.attempts = jobs[j.id].attempts
                      /\ row.last_error = exec[w].err
      /\ \A id \in DOMAIN jobs :
           (jobs[id].status = "processing" /\ jobs'[id].status # "processing") =>
             \E w \in Workers :
               /\ exec[w].pc = "fail"
               /\ exec[w].job.id = id
               /\ exec'[w].pc = "idle" ]_vars

\* of two confirmation jobs for one registration, one was rescheduled after
\* the breaker's fast-fail and the other dead-lettered after InProgress from
\* the gate, each by the rule for its attempts
C33_Witness ==
  \E a, b \in DOMAIN jobs :
    /\ jobs[a].status = "pending"
    /\ jobs[a].attempts = 1
    /\ jobs[a].last_error = "circuit_open"
    /\ jobs[b].status = "failed"
    /\ jobs[b].attempts = 1
    /\ jobs[b].last_error = "send_in_progress"

C35_ClaimedIsExecuted ==
  [][ \A w \in Workers :
        (claimed[w] # NoSnap /\ claimed'[w] = NoSnap) =>
          /\ exec'[w].pc = "execute"
          /\ exec'[w].job = claimed[w] ]_vars

\* C36: a delivery record in sending is resolved to sent or failed, also when
\* the worker that holds the send dies between TryStartRegistration and
\* MarkSent / MarkFailed: no record is sending while no executor is left that
\* sends for it or is about to mark it
C36_SendingIsResolved ==
  \A r \in RegIds :
    ledger[r].status = "sending" =>
      \E w \in Workers :
        /\ exec[w].pc \in {"send", "ledgerSent", "ledgerFailed"}
        /\ exec[w].job.reg = r

\* C37: the breaker leaves open only by the cooldown (open -> half_open once
\* now - opened_at >= cooldown). The end of a send that was let through before
\* the breaker opened does not close it and does not set opened_at again, and
\* the end of a send let through in the closed state leaves
\* half_open_in_flight as it is.
C37_OpenLeftByCooldownOnly ==
  [][ /\ (notifier.state = "open" /\ notifier'.state # "open") =>
           /\ notifier'.state = "half_open"
           /\ CooldownPassed(notifier, now)
      /\ (notifier.state = "open" /\ notifier'.state = "open") =>
           notifier'.openedAt = notifier.openedAt
      /\ \A c \in Callers :
           (calls[c].pc = "inner" /\ calls[c].admitted = "closed" /\ calls'[c].pc = "done") =>
             notifier'.halfOpenInFlight = notifier.halfOpenInFlight ]_vars

\* C38: MarkDone, MarkFailed and Reschedule of a worker take effect only while
\* that worker still holds the job's lock: an executor whose job was reclaimed,
\* and possibly claimed by another worker, changes nothing of the row when it
\* finishes
C38_OnlyHolderWrites ==
  [][ \A w \in Workers :
        ( /\ exec[w].pc \in {"markDone", "markDoneFailed", "fail", "rescheduleFailed"}
          /\ exec'[w] # exec[w]
          /\ jobs'[exec[w].job.id] # jobs[exec[w].job.id] )
        => /\ jobs[exec[w].job.id].status = "processing"
           /\ jobs[exec[w].job.id].locked_by = w ]_vars

\* C39: once a CreateEvent, UpdateEvent or DeleteEvent request has returned, no
\* ListEvents request that begins later is answered from a cache entry
\* computed before that mutation, in any interleaving of list and mutating
\* requests; and Cache.Get removes no entry that has not expired
C39_NoStaleList ==
  [][ \A l \in Listers :
        /\ (events.list[l].pc = "get" /\ events'.list[l].pc = "idle") =>
             events'.list[l].val >= events.list[l].since
        /\ (events.list[l].pc = "delete" /\ events'.list[l].pc = "query" /\ events.m.ok) =>
             now > events.m.exp ]_vars

====
